---- MODULE Spec2Model ----
(***************************************************************************)
(* A model of three parts of the Parcel core:                              *)
(*   - LMDBCache (the persistent artifact store): the LMDB key/value      *)
(*     store, the stream files and the chunked large blobs, the pipeline   *)
(*     of setStream, and a second process reading the same directory;      *)
(*   - the public asset wrappers Asset, MutableAsset and CommittedAsset    *)
(*     with their identity registries, and the commit of an asset;         *)
(*   - regexReplaceWithLocations and its callers replaceURLReferences and  *)
(*     replaceInlineReferences in replaceBundleReferences.js.              *)
(* Each part has its own specifications (SpecCache, SpecBlob, SpecStream   *)
(* and SpecReader; SpecAsset, SpecViews and SpecCommit; SpecReplace and    *)
(* SpecRefs); the variables of the other parts stay at their initial       *)
(* value.                                                                  *)
(***************************************************************************)
EXTENDS Integers, Sequences, FiniteSets, TLC

VARIABLES
  store,     \* LMDBCache.store: the LMDB database, a partial map key -> bytes
  fs,        \* the files of the cache directory, a partial map path -> bytes
  call,      \* the most recent setLargeBlob call and its chunk writes
  last,      \* the operation that completed last, with what it returned
  lastSet,   \* history: per key, the value of the most recent set(key, value)
  lastPut,   \* history: per key, which of set / setBlob stored the entry
  replaced,  \* history: per key, whether the last put replaced other data
  assetValues,                  \* the AssetValue objects (asset.value)
  wrappers,                     \* the public wrapper objects, by allocation
  uncommittedAssetValueToAsset, \* WeakMap<AssetValue, Asset>
  assetValueToMutableAsset,     \* WeakMap<AssetValue, MutableAsset>
  committedAssetValueToAsset,   \* Map<CommittedAssetId, CommittedAsset>
  lastWrite, \* history: the last write made through a MutableAsset
  input,            \* regexReplaceWithLocations: the text
  replacementMap,   \* the Map from token to replacement, in insertion order
  lastIndex,        \* how far input.replace has scanned the text
  line,             \* let line
  offset,           \* let offset
  columnStartIndex, \* let columnStartIndex
  offsets,          \* let offsets
  result,           \* the text input.replace has produced so far
  matched,   \* history: the index and the token of every placeholder match
  readTxn,     \* the read transaction of the store of a second LMDBCache
  versions,    \* history: the contents of the database after every commit
  refreshedAt, \* history: the last refresh() of the second LMDBCache
  committed,   \* the asset values whose uncommitted asset has been committed
  pipe,        \* the pipeline of the most recent setStream call
  graph,       \* the bundle graph: per dependency, isURL and the referenced bundle
  relative,    \* the parameter relative of replaceURLReferences
  layout,      \* history: the contents as literal characters and placeholders
  bundleContents, \* the contents of the bundle, as the passes hand them on
  pass,        \* the pass that is running, and how far its loop is
  replacements, \* per pass, its Map replacements, in insertion order
  finished,    \* the passes that have returned
  sourceMap    \* the source map given to the passes, if any, and its calls

cacheVars == <<store, fs, call, lastSet, lastPut, replaced>>

assetVars == <<assetValues, wrappers, uncommittedAssetValueToAsset,
               assetValueToMutableAsset, committedAssetValueToAsset, lastWrite>>

replVars == <<input, replacementMap, lastIndex, line, offset, columnStartIndex,
              offsets, result, matched>>

readerVars == <<readTxn, versions, refreshedAt>>

\* The variables of the parts added after the cache, the wrappers and the
\* text replacement.
refsVars == <<graph, relative, layout, bundleContents, pass, replacements,
             finished, sourceMap>>

restVars == <<readerVars, committed, pipe, refsVars>>

\* The variables of the added parts besides the second LMDBCache.
besidesReader == <<committed, pipe, refsVars>>

\* The variables of the added parts besides the commit of an asset.
besidesCommit == <<readerVars, pipe, refsVars>>

\* The variables of the added parts besides the pipeline of setStream.
besidesPipe == <<readerVars, committed, refsVars>>

\* The variables of the added parts besides the bundle reference passes.
besidesRefs == <<readerVars, committed, pipe>>

vars == <<store, fs, call, last, lastSet, lastPut, replaced,
          assetValues, wrappers, uncommittedAssetValueToAsset,
          assetValueToMutableAsset, committedAssetValueToAsset, lastWrite,
          input, replacementMap, lastIndex, line, offset, columnStartIndex,
          offsets, result, matched, restVars>>

----------------------------------------------------------------------------
(* Bounds *)

\* WRITE_LIMIT_CHUNK scaled down: the number of bytes of one chunk.
WRITE_LIMIT_CHUNK == 2

\* The longest payload given to setLargeBlob: two whole chunks and one byte.
MaxLen == 2 * WRITE_LIMIT_CHUNK + 1

\* The number of distinct payload fillings.
MaxTag == 2

\* The number of commits one process makes while another one reads.
MaxCommits == 3

Keys == {"a", "b"}

\* The keys given to the large blob operations.
BlobKeys == {"a"}

Values == {"v1", "v2"}

----------------------------------------------------------------------------
(* Helpers of the cache *)

\* A payload of n bytes, all different, and different from the bytes of a
\* payload with another tag.
Payload(tag, n) == [j \in 1..n |-> 10 * tag + j]

Payloads == {Payload(t, n) : t \in 1..MaxTag, n \in 0..MaxLen}

\* serialize(value): a header byte followed by the encoded value.
ValueCode(v) == IF v = "v1" THEN 1 ELSE 2

serialize(v) == <<255, ValueCode(v)>>

\* deserialize(data): the value when data is a serialized value, an error
\* (deserialize throws) otherwise.
deserialize(data) ==
  IF Len(data) = 2 /\ data[1] = 255 /\ data[2] \in {ValueCode(v) : v \in Values}
  THEN [kind |-> "value", val |-> CHOOSE v \in Values : ValueCode(v) = data[2]]
  ELSE [kind |-> "error", val |-> "deserialize"]

\* The raw byte strings given to setBlob.
Blobs == {<<7>>, serialize("v2")}

\* The contents of the streams given to setStream.
Streams == {<<5, 6>>}

\* The streams given to setStream when its pipeline is followed chunk by
\* chunk: the chunks a stream delivers, and after how many of them it emits
\* an error (never, when that is more chunks than it has).
MaxChunks == 2

ChunkedStreams ==
  [chunks : {<<>>, <<<<5, 6>>>>, <<<<7>>, <<8>>>>},
   errorAfter : 0 .. (MaxChunks + 1)]

\* The payloads given to setLargeBlob next to the store operations.
SmallPayloads == {Payload(1, 1)}

\* #getFilePath(key, index): path.join(this.dir, `${key}-${index}`), relative
\* to the cache directory.
getFilePath(key, index) == key \o "-" \o ToString(index)

\* A chunk count rounded down instead of up.
NumChunksFloor(contents) == Len(contents) \div WRITE_LIMIT_CHUNK

\* Math.ceil(contents.length / WRITE_LIMIT_CHUNK)
NumChunks(contents) ==
  (Len(contents) + WRITE_LIMIT_CHUNK - 1) \div WRITE_LIMIT_CHUNK

Min(x, y) == IF x < y THEN x ELSE y

\* contents.subarray(i * WRITE_LIMIT_CHUNK, (i + 1) * WRITE_LIMIT_CHUNK)
subarray(contents, i) ==
  SubSeq(contents, i * WRITE_LIMIT_CHUNK + 1,
         Min((i + 1) * WRITE_LIMIT_CHUNK, Len(contents)))

\* What the write of chunk i of a setLargeBlob call puts in the file: the
\* whole contents when there is one chunk, a slice otherwise.
ChunkData(contents, i) ==
  IF NumChunks(contents) = 1 THEN contents ELSE subarray(contents, i)

\* A setLargeBlob that writes chunk 0 whatever the length of the contents.
IssuedWritesAtLeastOne(contents) ==
  0 .. (IF NumChunks(contents) = 0 THEN 0 ELSE NumChunks(contents) - 1)

\* The chunk writes a setLargeBlob call has issued when it first awaits.
IssuedWrites(contents) == 0 .. (NumChunks(contents) - 1)

\* this.fs.exists(path)
exists(path) == path \in DOMAIN fs

\* this.fs.writeFile(path, data)
writeFile(path, data) ==
  [q \in DOMAIN fs \cup {path} |-> IF q = path THEN data ELSE fs[q]]

\* this.store.put(key, data)
put(key, data) ==
  [q \in DOMAIN store \cup {key} |-> IF q = key THEN data ELSE store[q]]

\* The entry of key holds data other than the data about to be put.
Replaces(key, data) == key \in DOMAIN store /\ store[key] # data

\* The loop of getLargeBlob: the chunks from index i up to the first index
\* whose file is missing, concatenated.
RECURSIVE ReadChunks(_, _)
ReadChunks(key, i) ==
  IF exists(getFilePath(key, i))
  THEN fs[getFilePath(key, i)] \o ReadChunks(key, i + 1)
  ELSE <<>>

\* The key holds no chunk file at all.
NoChunk(key) ==
  \A i \in 0 .. (MaxLen + 1) : ~exists(getFilePath(key, i))

Returned(op, key, kind, val) ==
  [op |-> op, key |-> key, res |-> [kind |-> kind, val |-> val]]

NoCall ==
  [key |-> "", contents |-> <<>>, pending |-> {}, written |-> {},
   failed |-> {}, status |-> "none", fresh |-> FALSE, prevOk |-> FALSE]

----------------------------------------------------------------------------
(* The operations of LMDBCache *)

\* An LMDBCache on an empty cache directory.
NewCache ==
  /\ store = <<>>
  /\ fs = <<>>
  /\ call = NoCall
  /\ lastSet = [k \in Keys |-> "none"]
  /\ lastPut = [k \in Keys |-> "none"]
  /\ replaced = [k \in Keys |-> FALSE]

\* No asset and no wrapper: the registries as the module creates them.
NoAssets ==
  /\ assetValues = <<>>
  /\ wrappers = <<>>
  /\ uncommittedAssetValueToAsset = <<>>
  /\ assetValueToMutableAsset = <<>>
  /\ committedAssetValueToAsset = <<>>
  /\ lastWrite = [prop |-> "none"]

\* No text to rewrite.
NoReplacement ==
  /\ input = <<>>
  /\ replacementMap = <<>>
  /\ lastIndex = 0
  /\ line = 1
  /\ offset = 0
  /\ columnStartIndex = 0
  /\ offsets = <<>>
  /\ result = <<>>
  /\ matched = <<>>

\* No setStream call yet.
NoPipe ==
  [key |-> "", source |-> <<>>, errorAfter |-> 0, read |-> 0, all |-> <<>>,
   written |-> <<>>, status |-> "none", before |-> <<>>]

\* No pass of replaceBundleReferences.js is running.
NoPass == [name |-> "none", next |-> 0, inFlight |-> {}, calls |-> <<>>]

\* The parameter map left out: no SourceMap object, and no call on one.
NoSourceMap == [attached |-> FALSE, offsetColumns |-> <<>>, before |-> 0]

\* No bundle whose references are to be replaced.
NoRefs ==
  /\ graph = <<>>
  /\ relative = TRUE
  /\ layout = <<>>
  /\ bundleContents = <<>>
  /\ pass = NoPass
  /\ replacements = [url |-> <<>>, inline |-> <<>>]
  /\ finished = {}
  /\ sourceMap = NoSourceMap

\* No second LMDBCache on the cache directory.
NoReader ==
  /\ readTxn = [open |-> FALSE, version |-> 0]
  /\ versions = <<>>
  /\ refreshedAt = [done |-> FALSE, version |-> 0, old |-> 0]

\* The parts added after the cache, the wrappers and the text replacement
\* are idle.
NoRest ==
  /\ NoReader
  /\ committed = {}
  /\ pipe = NoPipe
  /\ NoRefs

InitCache ==
  /\ NewCache
  /\ NoAssets
  /\ NoReplacement
  /\ NoRest
  /\ last = Returned("new", "", "void", "")

\* has(key)
Has(key) ==
  /\ last' = Returned("has", key, "value", key \in DOMAIN store)
  /\ UNCHANGED <<store, fs, call, lastSet, lastPut, replaced, assetVars, replVars, restVars>>

\* get(key)
Get(key) ==
  /\ last' = IF key \in DOMAIN store
             THEN [op |-> "get", key |-> key, res |-> deserialize(store[key])]
             ELSE Returned("get", key, "absent", "")
  /\ UNCHANGED <<store, fs, call, lastSet, lastPut, replaced, assetVars, replVars, restVars>>

\* setBlob(key, contents)
SetBlob(key, contents) ==
  /\ store' = put(key, contents)
  /\ lastPut' = [lastPut EXCEPT ![key] = "setBlob"]
  /\ replaced' = [replaced EXCEPT ![key] = Replaces(key, contents)]
  /\ last' = Returned("setBlob", key, "void", "")
  /\ UNCHANGED <<fs, call, lastSet, assetVars, replVars, restVars>>

\* A set that keeps the entry a key already has.
SetIfAbsent(key, value) ==
  /\ store' = IF key \in DOMAIN store THEN store ELSE put(key, serialize(value))
  /\ lastPut' = [lastPut EXCEPT ![key] = "set"]
  /\ lastSet' = [lastSet EXCEPT ![key] = value]
  /\ replaced' = [replaced EXCEPT ![key] = Replaces(key, serialize(value))]
  /\ last' = Returned("set", key, "void", "")
  /\ UNCHANGED <<fs, call, assetVars, replVars, restVars>>

\* set(key, value): setBlob(key, serialize(value))
Set(key, value) ==
  /\ store' = put(key, serialize(value))
  /\ lastPut' = [lastPut EXCEPT ![key] = "set"]
  /\ lastSet' = [lastSet EXCEPT ![key] = value]
  /\ replaced' = [replaced EXCEPT ![key] = Replaces(key, serialize(value))]
  /\ last' = Returned("set", key, "void", "")
  /\ UNCHANGED <<fs, call, assetVars, replVars, restVars>>

\* A getBlob that resolves to nothing on a missing key.
GetBlobOrAbsent(key) ==
  /\ last' = IF key \in DOMAIN store
             THEN Returned("getBlob", key, "value", store[key])
             ELSE Returned("getBlob", key, "absent", "")
  /\ UNCHANGED <<store, fs, call, lastSet, lastPut, replaced, assetVars, replVars, restVars>>

\* getBlob(key)
GetBlob(key) ==
  /\ last' = IF key \in DOMAIN store
             THEN Returned("getBlob", key, "value", store[key])
             ELSE Returned("getBlob", key, "error", "not found")
  /\ UNCHANGED <<store, fs, call, lastSet, lastPut, replaced, assetVars, replVars, restVars>>

\* getBuffer(key)
GetBuffer(key) ==
  /\ last' = IF key \in DOMAIN store
             THEN Returned("getBuffer", key, "value", store[key])
             ELSE Returned("getBuffer", key, "absent", "")
  /\ UNCHANGED <<store, fs, call, lastSet, lastPut, replaced, assetVars, replVars, restVars>>

\* setStream(key, stream), the stream delivering data without error: the
\* pipeline writes the file path.join(this.dir, key).
SetStream(key, data) ==
  /\ fs' = writeFile(key, data)
  /\ last' = Returned("setStream", key, "void", "")
  /\ UNCHANGED <<store, call, lastSet, lastPut, replaced, assetVars, replVars, restVars>>

\* The bytes of a sequence of chunks.
RECURSIVE Concat(_)
Concat(chunks) ==
  IF chunks = <<>> THEN <<>> ELSE Head(chunks) \o Concat(Tail(chunks))

\* The file of a path as a one-element sequence, <<>> when there is none.
FileAt(path) == IF exists(path) THEN <<fs[path]>> ELSE <<>>

\* A setStream that resolves as soon as the pipeline is set up.
SetStreamBeginResolved(key, stream) ==
  /\ pipe.status # "running"
  /\ pipe' = [key |-> key, source |-> stream.chunks,
              errorAfter |-> stream.errorAfter, read |-> 0,
              all |-> Concat(stream.chunks), written |-> <<>>,
              status |-> "resolved", before |-> FileAt(key)]
  /\ last' = Returned("setStream", key, "void", "")
  /\ UNCHANGED <<cacheVars, assetVars, replVars, besidesPipe>>

\* setStream(key, stream): pipeline(stream, this.fs.createWriteStream(...))
\* is set up and its promise is returned.
SetStreamBegin(key, stream) ==
  /\ pipe.status # "running"
  /\ pipe' = [key |-> key, source |-> stream.chunks,
              errorAfter |-> stream.errorAfter, read |-> 0,
              all |-> Concat(stream.chunks), written |-> <<>>,
              status |-> "running", before |-> FileAt(key)]
  /\ last' = Returned("setStream called", key, "void", "")
  /\ UNCHANGED <<cacheVars, assetVars, replVars, besidesPipe>>

\* The pipeline moves the next chunk of the source into the write stream.
PipeChunk ==
  /\ pipe.status = "running"
  /\ pipe.source # <<>>
  /\ pipe.read < pipe.errorAfter
  /\ pipe' = [pipe EXCEPT !.source = Tail(@), !.read = @ + 1,
                          !.written = @ \o Head(pipe.source)]
  /\ last' = Returned("chunk", pipe.key, "void", "")
  /\ UNCHANGED <<cacheVars, assetVars, replVars, besidesPipe>>

\* What the write stream of createWriteStream leaves at its path when it
\* has finished: the bytes written to it.
WriteStreamFinished(path, written) == writeFile(path, written)

\* What the write stream leaves behind when it is destroyed with an error:
\* the files as they were.
WriteStreamFailed(path, written) == fs

\* The source has ended and the write stream has finished: the promise of
\* the pipeline resolves.
PipeFinish ==
  /\ pipe.status = "running"
  /\ pipe.source = <<>>
  /\ pipe.read < pipe.errorAfter
  /\ fs' = WriteStreamFinished(pipe.key, pipe.written)
  /\ pipe' = [pipe EXCEPT !.status = "resolved"]
  /\ last' = Returned("setStream", pipe.key, "void", "")
  /\ UNCHANGED <<store, call, lastSet, lastPut, replaced, assetVars,
                 replVars, besidesPipe>>

\* The source emits an error: the pipeline destroys the write stream and
\* its promise rejects.
PipeError ==
  /\ pipe.status = "running"
  /\ pipe.read = pipe.errorAfter
  /\ fs' = WriteStreamFailed(pipe.key, pipe.written)
  /\ pipe' = [pipe EXCEPT !.status = "rejected"]
  /\ last' = Returned("setStream", pipe.key, "error", "stream")
  /\ UNCHANGED <<store, call, lastSet, lastPut, replaced, assetVars,
                 replVars, besidesPipe>>

\* A hasLargeBlob that probes every chunk index.
HasLargeBlobAnyChunk(key) ==
  /\ last' = Returned("hasLargeBlob", key, "value",
                      \E i \in 0 .. MaxLen : exists(getFilePath(key, i)))
  /\ UNCHANGED <<store, fs, call, lastSet, lastPut, replaced, assetVars, replVars, restVars>>

\* hasLargeBlob(key)
HasLargeBlob(key) ==
  /\ last' = Returned("hasLargeBlob", key, "value", exists(getFilePath(key, 0)))
  /\ UNCHANGED <<store, fs, call, lastSet, lastPut, replaced, assetVars, replVars, restVars>>

\* A getLargeBlob that reads every chunk file of the key, also those after
\* a missing index.
GetLargeBlobPastGap(key) ==
  /\ last' = Returned("getLargeBlob", key, "value",
                      Concat([j \in 1 .. (MaxLen + 1) |->
                               Concat(FileAt(getFilePath(key, j - 1)))]))
  /\ UNCHANGED <<store, fs, call, lastSet, lastPut, replaced, assetVars, replVars, restVars>>

\* getLargeBlob(key)
GetLargeBlob(key) ==
  /\ last' = Returned("getLargeBlob", key, "value", ReadChunks(key, 0))
  /\ UNCHANGED <<store, fs, call, lastSet, lastPut, replaced, assetVars, replVars, restVars>>

\* setLargeBlob(key, contents) up to its first await: every chunk write is
\* issued; with no chunk at all Promise.all([]) resolves at once.
SetLargeBlob(key, contents) ==
  /\ call.pending = {}
  /\ call' = [key |-> key, contents |-> contents,
              pending |-> IssuedWrites(contents),
              written |-> {}, failed |-> {},
              status |-> IF IssuedWrites(contents) = {} THEN "resolved"
                         ELSE "running",
              fresh |-> NoChunk(key),
              prevOk |-> call.status = "resolved" /\ call.key = key]
  /\ last' = Returned("setLargeBlob", key, "void", "")
  /\ UNCHANGED <<store, fs, lastSet, lastPut, replaced, assetVars, replVars, restVars>>

\* Chunk writes whose failure is swallowed.
WriteFileDoneSettled(i, ok) ==
  /\ i \in call.pending
  /\ fs' = IF ok
           THEN writeFile(getFilePath(call.key, i), ChunkData(call.contents, i))
           ELSE fs
  /\ call' = [call EXCEPT
       !.pending = @ \ {i},
       !.written = IF ok THEN @ \cup {i} ELSE @,
       !.failed = IF ok THEN @ ELSE @ \cup {i},
       !.status = IF call.pending = {i} THEN "resolved" ELSE @]
  /\ last' = Returned("writeFile", call.key, "void", "")
  /\ UNCHANGED <<store, lastSet, lastPut, replaced, assetVars, replVars, restVars>>

\* One chunk write of the call in flight completes: it wrote its file, or it
\* failed and wrote nothing. The first failure rejects the call, the other
\* writes go on; the last success resolves it.
WriteFileDone(i, ok) ==
  /\ i \in call.pending
  /\ fs' = IF ok
           THEN writeFile(getFilePath(call.key, i), ChunkData(call.contents, i))
           ELSE fs
  /\ call' = [call EXCEPT
       !.pending = @ \ {i},
       !.written = IF ok THEN @ \cup {i} ELSE @,
       !.failed = IF ok THEN @ ELSE @ \cup {i},
       !.status = IF ~ok THEN "rejected"
                  ELSE IF @ = "running" /\ call.pending = {i} THEN "resolved"
                  ELSE @]
  /\ last' = Returned("writeFile", call.key, "void", "")
  /\ UNCHANGED <<store, lastSet, lastPut, replaced, assetVars, replVars, restVars>>

\* The store operations, with large blob calls of at most one chunk.
NextCache ==
  \/ \E k \in Keys : Has(k)
  \/ \E k \in Keys : Get(k)
  \/ \E k \in Keys, v \in Values : Set(k, v)
  \/ \E k \in Keys, b \in Blobs : SetBlob(k, b)
  \/ \E k \in Keys : GetBlob(k)
  \/ \E k \in Keys : GetBuffer(k)
  \/ \E k \in Keys, d \in Streams : SetStream(k, d)
  \/ \E k \in BlobKeys, c \in SmallPayloads : SetLargeBlob(k, c)
  \/ \E i \in 0 .. MaxLen, ok \in BOOLEAN : WriteFileDone(i, ok)

SpecCache == InitCache /\ [][NextCache]_vars

\* The large blob operations, with payloads of up to three chunks.
NextBlob ==
  \/ \E k \in BlobKeys : HasLargeBlob(k)
  \/ \E k \in BlobKeys : GetLargeBlob(k)
  \/ \E k \in BlobKeys, c \in Payloads : SetLargeBlob(k, c)
  \/ \E i \in 0 .. MaxLen, ok \in BOOLEAN : WriteFileDone(i, ok)

SpecBlob == InitCache /\ [][NextBlob]_vars

\* setStream followed chunk by chunk, one call at a time.
NextStream ==
  \/ \E k \in Keys, st \in ChunkedStreams : SetStreamBegin(k, st)
  \/ PipeChunk
  \/ PipeFinish
  \/ PipeError

SpecStream == InitCache /\ [][NextStream]_vars

----------------------------------------------------------------------------
(* Two LMDBCache objects on one cache directory: a process that writes and *)
(* a process that reads.  Every commit makes a new version of the database; *)
(* a read transaction is a view of one version.                            *)

\* The parts besides the second LMDBCache are idle.
NoRestBesidesReader ==
  /\ committed = {}
  /\ pipe = NoPipe
  /\ NoRefs

\* this.store.get(key) != null, on the version a transaction views
HasFrom(data, key) == [kind |-> "value", val |-> key \in DOMAIN data]

\* get(key) on the version a transaction views
GetFrom(data, key) ==
  IF key \in DOMAIN data THEN deserialize(data[key])
  ELSE [kind |-> "absent", val |-> ""]

\* The read transaction a read of the store uses: the cached one, or a new
\* one on the latest version when none is cached.
getReadTxn ==
  IF readTxn.open THEN readTxn
  ELSE [open |-> TRUE, version |-> Len(versions)]

\* The writing process and the reading process open the same directory.
InitReader ==
  /\ NewCache
  /\ NoAssets
  /\ NoReplacement
  /\ NoRestBesidesReader
  /\ readTxn = [open |-> FALSE, version |-> 0]
  /\ versions = <<store>>
  /\ refreshedAt = [done |-> FALSE, version |-> 0, old |-> 0]
  /\ last = Returned("new", "", "void", "")

\* set(key, value) of the writing process, resolved: the put is committed.
WriterSet(key, value) ==
  /\ Len(versions) <= MaxCommits
  /\ store' = put(key, serialize(value))
  /\ versions' = Append(versions, store')
  /\ lastPut' = [lastPut EXCEPT ![key] = "set"]
  /\ lastSet' = [lastSet EXCEPT ![key] = value]
  /\ replaced' = [replaced EXCEPT ![key] = Replaces(key, serialize(value))]
  /\ last' = Returned("set", key, "void", "")
  /\ UNCHANGED <<fs, call, readTxn, refreshedAt, assetVars, replVars,
                 besidesReader>>

\* has(key) of the reading process
ReaderHas(key) ==
  /\ readTxn' = getReadTxn
  /\ last' = [op |-> "readerHas", key |-> key,
              res |-> HasFrom(versions[getReadTxn.version], key)]
  /\ UNCHANGED <<cacheVars, versions, refreshedAt, assetVars, replVars,
                 besidesReader>>

\* get(key) of the reading process
ReaderGet(key) ==
  /\ readTxn' = getReadTxn
  /\ last' = [op |-> "readerGet", key |-> key,
              res |-> GetFrom(versions[getReadTxn.version], key)]
  /\ UNCHANGED <<cacheVars, versions, refreshedAt, assetVars, replVars,
                 besidesReader>>

\* A refresh that leaves the read transaction as it is.
RefreshKeepsTxn ==
  /\ refreshedAt' = [done |-> TRUE, version |-> Len(versions),
                     old |-> IF readTxn.open THEN readTxn.version ELSE 0]
  /\ last' = Returned("refresh", "", "void", "")
  /\ UNCHANGED <<cacheVars, readTxn, versions, assetVars, replVars,
                 besidesReader>>

\* refresh() of the reading process: this.store.resetReadTxn()
Refresh ==
  /\ readTxn' = [open |-> FALSE, version |-> 0]
  /\ refreshedAt' = [done |-> TRUE, version |-> Len(versions),
                     old |-> IF readTxn.open THEN readTxn.version ELSE 0]
  /\ last' = Returned("refresh", "", "void", "")
  /\ UNCHANGED <<cacheVars, versions, assetVars, replVars, besidesReader>>

NextReader ==
  \/ \E k \in Keys, v \in Values : WriterSet(k, v)
  \/ \E k \in Keys : ReaderHas(k)
  \/ \E k \in Keys : ReaderGet(k)
  \/ Refresh

SpecReader == InitReader /\ [][NextReader]_vars

----------------------------------------------------------------------------
(* The public asset wrappers *)

\* null in a field that holds a number otherwise.
Null == -1

\* The UncommittedAsset objects given to the constructors, with the
\* AssetValue object each holds in its value field: u2 and u3 share one.
UncommittedAssets == {"u1", "u2", "u3"}

ValueOf(asset) == IF asset = "u1" THEN 1 ELSE 2

\* The InternalCommittedAsset objects, with the address in value.addr: two
\* objects for the same address.
CommittedAssets == {"c1", "c2"}

AddrOf(asset) == IF asset \in {"c1", "c2"} THEN 10 ELSE 20

Types == {"js", "css"}

BundleBehaviors == {"null", "inline", "isolated"}

UniqueKeys == {"null", "k1", "k2"}

EnvironmentOptions == {"browser", "node"}

\* BundleBehavior of ../types: the number an asset value stores for a name.
BundleBehaviorMap(name) == IF name = "inline" THEN 0 ELSE 1

\* BundleBehaviorNames of ../types: the name of a stored number.
BundleBehaviorNames(n) == IF n = 0 THEN "inline" ELSE "isolated"

\* createEnvironment(db, options): the internal environment of the options.
createEnvironment(env) == "env:" \o env

\* UncommittedAsset.updateId(): the id is derived from the type, the
\* environment and the unique key the value has at that moment.
updateId(value) ==
  [value EXCEPT !.id = <<value.type, value.env, value.uniqueKey>>]

\* The AssetValue of a newly created UncommittedAsset.
NewAssetValue ==
  updateId([type |-> "js", bundleBehavior |-> Null, isBundleSplittable |-> TRUE,
            sideEffects |-> TRUE, uniqueKey |-> "null",
            env |-> createEnvironment("browser"), id |-> <<>>])

\* map.set(key, object) on one of the registries.
MapSet(map, key, object) ==
  [q \in DOMAIN map \cup {key} |-> IF q = key THEN object ELSE map[q]]

\* The wrapper objects of a class.
WrappersOf(class) == {w \in DOMAIN wrappers : wrappers[w].class = class}

\* The AssetValue or the address a wrapper object stands for.
IdentityOf(w) ==
  IF wrappers[w].class = "CommittedAsset"
  THEN AddrOf(wrappers[w].asset)
  ELSE ValueOf(wrappers[w].asset)

Wrapped(op, asset, w) ==
  [op |-> op, key |-> asset, res |-> [kind |-> "object", val |-> w]]

ReadResult(w, prop, val) ==
  [op |-> "read", key |-> w, prop |-> prop,
   res |-> [kind |-> "value", val |-> val]]

Written(w, prop, val) ==
  [prop |-> prop, value |-> ValueOf(wrappers[w].asset), val |-> val]

\* A constructor that does not look the value up before it registers.
NewAssetAlways(asset) ==
  /\ ValueOf(asset) \in DOMAIN assetValues
  /\ Len(wrappers) < 4
  /\ wrappers' = Append(wrappers,
         [class |-> "Asset", asset |-> asset, env |-> "unset"])
  /\ uncommittedAssetValueToAsset' =
       MapSet(uncommittedAssetValueToAsset, ValueOf(asset), Len(wrappers) + 1)
  /\ last' = Wrapped("new Asset", asset, Len(wrappers) + 1)
  /\ UNCHANGED <<assetValues, assetValueToMutableAsset,
                 committedAssetValueToAsset, lastWrite, cacheVars, replVars, restVars>>

\* new Asset(asset)
NewAsset(asset) ==
  /\ ValueOf(asset) \in DOMAIN assetValues
  /\ IF ValueOf(asset) \in DOMAIN uncommittedAssetValueToAsset
     THEN /\ last' = Wrapped("new Asset", asset,
                             uncommittedAssetValueToAsset[ValueOf(asset)])
          /\ UNCHANGED <<wrappers, uncommittedAssetValueToAsset>>
     ELSE /\ wrappers' = Append(wrappers,
                [class |-> "Asset", asset |-> asset, env |-> "unset"])
          /\ uncommittedAssetValueToAsset' =
               MapSet(uncommittedAssetValueToAsset, ValueOf(asset),
                      Len(wrappers) + 1)
          /\ last' = Wrapped("new Asset", asset, Len(wrappers) + 1)
  /\ UNCHANGED <<assetValues, assetValueToMutableAsset,
                 committedAssetValueToAsset, lastWrite, cacheVars, replVars, restVars>>

\* new MutableAsset(asset)
NewMutableAsset(asset) ==
  /\ ValueOf(asset) \in DOMAIN assetValues
  /\ IF ValueOf(asset) \in DOMAIN assetValueToMutableAsset
     THEN /\ last' = Wrapped("new MutableAsset", asset,
                             assetValueToMutableAsset[ValueOf(asset)])
          /\ UNCHANGED <<wrappers, assetValueToMutableAsset>>
     ELSE /\ wrappers' = Append(wrappers,
                [class |-> "MutableAsset", asset |-> asset, env |-> "unset"])
          /\ assetValueToMutableAsset' =
               MapSet(assetValueToMutableAsset, ValueOf(asset),
                      Len(wrappers) + 1)
          /\ last' = Wrapped("new MutableAsset", asset, Len(wrappers) + 1)
  /\ UNCHANGED <<assetValues, uncommittedAssetValueToAsset,
                 committedAssetValueToAsset, lastWrite, cacheVars, replVars, restVars>>

\* new CommittedAsset(asset)
NewCommittedAsset(asset) ==
  /\ IF AddrOf(asset) \in DOMAIN committedAssetValueToAsset
     THEN /\ last' = Wrapped("new CommittedAsset", asset,
                             committedAssetValueToAsset[AddrOf(asset)])
          /\ UNCHANGED <<wrappers, committedAssetValueToAsset>>
     ELSE /\ wrappers' = Append(wrappers,
                [class |-> "CommittedAsset", asset |-> asset, env |-> "unset"])
          /\ committedAssetValueToAsset' =
               MapSet(committedAssetValueToAsset, AddrOf(asset),
                      Len(wrappers) + 1)
          /\ last' = Wrapped("new CommittedAsset", asset, Len(wrappers) + 1)
  /\ UNCHANGED <<assetValues, uncommittedAssetValueToAsset,
                 assetValueToMutableAsset, lastWrite, cacheVars, replVars, restVars>>

\* A setter of the MutableAsset w that stores the fields of update in the
\* asset value and returns.
WriteValue(w, prop, val, value) ==
  /\ assetValues' = [assetValues EXCEPT ![ValueOf(wrappers[w].asset)] = value]
  /\ lastWrite' = Written(w, prop, val)
  /\ last' = [op |-> "write", key |-> w, prop |-> prop,
              res |-> [kind |-> "void", val |-> ""]]
  /\ UNCHANGED <<wrappers, uncommittedAssetValueToAsset,
                 assetValueToMutableAsset, committedAssetValueToAsset,
                 cacheVars, replVars, restVars>>

\* The asset value behind the wrapper w.
ValueBehind(w) == assetValues[ValueOf(wrappers[w].asset)]

\* A setter of type that stores the type and leaves the id as it is.
SetTypeKeepsId(w, type) ==
  /\ w \in WrappersOf("MutableAsset")
  /\ WriteValue(w, "type", type, [ValueBehind(w) EXCEPT !.type = type])

\* set type(type) of MutableAsset
SetType(w, type) ==
  /\ w \in WrappersOf("MutableAsset")
  /\ WriteValue(w, "type", type,
       IF type # ValueBehind(w).type
       THEN updateId([ValueBehind(w) EXCEPT !.type = type])
       ELSE ValueBehind(w))

\* set bundleBehavior(bundleBehavior) of MutableAsset
SetBundleBehavior(w, bundleBehavior) ==
  /\ w \in WrappersOf("MutableAsset")
  /\ WriteValue(w, "bundleBehavior", bundleBehavior,
       [ValueBehind(w) EXCEPT !.bundleBehavior =
          IF bundleBehavior # "null" THEN BundleBehaviorMap(bundleBehavior)
          ELSE Null])

\* set isBundleSplittable(isBundleSplittable) of MutableAsset
SetIsBundleSplittable(w, isBundleSplittable) ==
  /\ w \in WrappersOf("MutableAsset")
  /\ WriteValue(w, "isBundleSplittable", isBundleSplittable,
       [ValueBehind(w) EXCEPT !.isBundleSplittable = isBundleSplittable])

\* set sideEffects(sideEffects) of MutableAsset
SetSideEffects(w, sideEffects) ==
  /\ w \in WrappersOf("MutableAsset")
  /\ WriteValue(w, "sideEffects", sideEffects,
       [ValueBehind(w) EXCEPT !.sideEffects = sideEffects])

\* A setter of uniqueKey that assigns whatever the asset value holds.
SetUniqueKeyAgain(w, uniqueKey) ==
  /\ w \in WrappersOf("MutableAsset")
  /\ WriteValue(w, "uniqueKey", uniqueKey,
       [ValueBehind(w) EXCEPT !.uniqueKey = uniqueKey])

\* set uniqueKey(uniqueKey) of MutableAsset
SetUniqueKey(w, uniqueKey) ==
  /\ w \in WrappersOf("MutableAsset")
  /\ IF ValueBehind(w).uniqueKey # "null"
     THEN /\ last' = [op |-> "write", key |-> w, prop |-> "uniqueKey",
                      arg |-> uniqueKey,
                      res |-> [kind |-> "error",
                               val |-> "Cannot change an asset's uniqueKey"]]
          /\ UNCHANGED <<assetVars, cacheVars, replVars, restVars>>
     ELSE WriteValue(w, "uniqueKey", uniqueKey,
            [ValueBehind(w) EXCEPT !.uniqueKey = uniqueKey])

\* setEnvironment(env) of MutableAsset
SetEnvironment(w, env) ==
  /\ w \in WrappersOf("MutableAsset")
  /\ WriteValue(w, "env", createEnvironment(env),
       updateId([ValueBehind(w) EXCEPT !.env = createEnvironment(env)]))

\* The getters of BaseAsset, which Asset and MutableAsset inherit or repeat.
BaseGet(w, prop) ==
  CASE prop = "id" -> ValueBehind(w).id
    [] prop = "type" -> ValueBehind(w).type
    [] prop = "bundleBehavior" ->
         IF ValueBehind(w).bundleBehavior = Null THEN "null"
         ELSE BundleBehaviorNames(ValueBehind(w).bundleBehavior)
    [] prop = "isBundleSplittable" -> ValueBehind(w).isBundleSplittable
    [] prop = "sideEffects" -> ValueBehind(w).sideEffects
    [] prop = "uniqueKey" -> ValueBehind(w).uniqueKey
    [] prop = "env" -> ValueBehind(w).env

Props == {"id", "type", "bundleBehavior", "isBundleSplittable", "sideEffects",
          "uniqueKey"}

\* Reading a property other than env of an Asset or a MutableAsset.
Read(w, prop) ==
  /\ w \in WrappersOf("Asset") \cup WrappersOf("MutableAsset")
  /\ last' = ReadResult(w, prop, BaseGet(w, prop))
  /\ UNCHANGED <<assetVars, cacheVars, replVars, restVars>>

\* get env(): MutableAsset has the getter of BaseAsset, which wraps the
\* current value.env; the getter of Asset keeps the Environment of its first
\* call in #env.
ReadEnv(w) ==
  /\ w \in WrappersOf("Asset") \cup WrappersOf("MutableAsset")
  /\ IF wrappers[w].class = "Asset"
     THEN /\ wrappers' = [wrappers EXCEPT ![w].env =
                IF @ = "unset" THEN ValueBehind(w).env ELSE @]
          /\ last' = ReadResult(w, "env", wrappers'[w].env)
     ELSE /\ last' = ReadResult(w, "env", BaseGet(w, "env"))
          /\ UNCHANGED wrappers
  /\ UNCHANGED <<assetValues, uncommittedAssetValueToAsset,
                 assetValueToMutableAsset, committedAssetValueToAsset,
                 lastWrite, cacheVars, replVars, restVars>>

\* Two uncommitted asset values and no wrapper yet.
InitAsset ==
  /\ NewCache
  /\ assetValues = [v \in {1, 2} |-> NewAssetValue]
  /\ wrappers = <<>>
  /\ uncommittedAssetValueToAsset = <<>>
  /\ assetValueToMutableAsset = <<>>
  /\ committedAssetValueToAsset = <<>>
  /\ lastWrite = [prop |-> "none"]
  /\ NoReplacement
  /\ NoRest
  /\ last = Returned("new", "", "void", "")

\* The constructors, with the write that changes the id of an asset.
NextAsset ==
  \/ \E a \in UncommittedAssets : NewAsset(a)
  \/ \E a \in UncommittedAssets : NewMutableAsset(a)
  \/ \E a \in CommittedAssets : NewCommittedAsset(a)
  \/ \E w \in DOMAIN wrappers, t \in Types : SetType(w, t)

SpecAsset == InitAsset /\ [][NextAsset]_vars

\* One uncommitted asset value and no wrapper yet.
InitViews ==
  /\ NewCache
  /\ assetValues = [v \in {1} |-> NewAssetValue]
  /\ wrappers = <<>>
  /\ uncommittedAssetValueToAsset = <<>>
  /\ assetValueToMutableAsset = <<>>
  /\ committedAssetValueToAsset = <<>>
  /\ lastWrite = [prop |-> "none"]
  /\ NoReplacement
  /\ NoRest
  /\ last = Returned("new", "", "void", "")

\* The read view and the mutable view of one asset value.
NextViews ==
  \/ \E a \in UncommittedAssets : NewAsset(a)
  \/ \E a \in UncommittedAssets : NewMutableAsset(a)
  \/ \E w \in DOMAIN wrappers, t \in Types : SetType(w, t)
  \/ \E w \in DOMAIN wrappers, b \in BundleBehaviors : SetBundleBehavior(w, b)
  \/ \E w \in DOMAIN wrappers, b \in BOOLEAN : SetIsBundleSplittable(w, b)
  \/ \E w \in DOMAIN wrappers, b \in BOOLEAN : SetSideEffects(w, b)
  \/ \E w \in DOMAIN wrappers, k \in UniqueKeys : SetUniqueKey(w, k)
  \/ \E w \in DOMAIN wrappers, e \in EnvironmentOptions : SetEnvironment(w, e)
  \/ \E w \in DOMAIN wrappers, p \in Props : Read(w, p)
  \/ \E w \in DOMAIN wrappers : ReadEnv(w)

SpecViews == InitViews /\ [][NextViews]_vars

\* commit() of the uncommitted asset behind the wrappers of asset: its
\* content is flushed and the asset is final.
Commit(asset) ==
  /\ ValueOf(asset) \in DOMAIN assetValues
  /\ committed' = committed \cup {ValueOf(asset)}
  /\ last' = Returned("commit", asset, "void", "")
  /\ UNCHANGED <<assetVars, cacheVars, replVars, besidesCommit>>

\* The mutable view of one asset value, and the commit of the asset.
NextCommit ==
  \/ \E a \in UncommittedAssets : NewMutableAsset(a)
  \/ \E a \in UncommittedAssets : Commit(a)
  \/ \E w \in DOMAIN wrappers, t \in Types : SetType(w, t)
  \/ \E w \in DOMAIN wrappers, b \in BundleBehaviors : SetBundleBehavior(w, b)
  \/ \E w \in DOMAIN wrappers, b \in BOOLEAN : SetIsBundleSplittable(w, b)
  \/ \E w \in DOMAIN wrappers, b \in BOOLEAN : SetSideEffects(w, b)
  \/ \E w \in DOMAIN wrappers, k \in UniqueKeys : SetUniqueKey(w, k)
  \/ \E w \in DOMAIN wrappers, e \in EnvironmentOptions : SetEnvironment(w, e)

SpecCommit == InitViews /\ [][NextCommit]_vars

----------------------------------------------------------------------------
(* regexReplaceWithLocations *)

\* The longest text of the enumerated inputs.
MaxText == 4

NL == "\n"

Chars == {"a", "b", NL}

Texts == UNION {[1 .. n -> Chars] : n \in 0 .. MaxText}

\* The placeholder tokens: one is a prefix of another, two overlap.
Tokens == {<<"a">>, <<"a", "b">>, <<"b", "a">>}

\* The replacements: empty, of the length of a token, longer, and one holding
\* a newline and a token.
Replacements == {<<>>, <<"x">>, <<"x", "y", "z">>, <<NL, "a">>}

Entries == [from : Tokens, to : Replacements]

\* The replacement maps of one or two tokens, in either insertion order.
Maps ==
  {<<e>> : e \in Entries}
    \cup {m \in {<<e1, e2>> : e1 \in Entries, e2 \in Entries} :
            m[1].from # m[2].from}

\* A 3-character token replaced by 10 characters at line 2, column 5.
OffsetExample ==
  [input |-> <<"a", "b", NL, "c", "c", "c", "c", "c", "P", "Q", "R">>,
   map |-> <<[from |-> <<"P", "Q", "R">>,
              to |-> <<"0", "1", "2", "3", "4", "5", "6", "7", "8", "9">>]>>]

\* "abc" -> "X" and "abcdef" -> "Y" on the text "abcdef".
PrefixExample ==
  [input |-> <<"a", "b", "c", "d", "e", "f">>,
   map |-> <<[from |-> <<"a", "b", "c">>, to |-> <<"X">>],
             [from |-> <<"a", "b", "c", "d", "e", "f">>, to |-> <<"Y">>]>>]

Examples == {OffsetExample, PrefixExample}

\* Array.from(replacementMap.keys())
MapKeys(map) == [i \in DOMAIN map |-> map[i].from]

\* replacementMap.has(key)
MapHas(map, key) == \E i \in DOMAIN map : map[i].from = key

\* replacementMap.get(key), for a key the map has
MapGet(map, key) == map[CHOOSE i \in DOMAIN map : map[i].from = key].to

\* One step of the stable sort: key goes behind the keys that are not shorter.
RECURSIVE InsertByLength(_, _)
InsertByLength(sorted, key) ==
  IF sorted = <<>> THEN <<key>>
  ELSE IF Len(Head(sorted)) >= Len(key)
       THEN <<Head(sorted)>> \o InsertByLength(Tail(sorted), key)
       ELSE <<key>> \o sorted

\* keys.sort((a, b) => b.length - a.length)
RECURSIVE SortByLength(_)
SortByLength(keys) ==
  IF keys = <<>> THEN <<>>
  ELSE InsertByLength(SortByLength(SubSeq(keys, 1, Len(keys) - 1)),
                      keys[Len(keys)])

\* The keys in the insertion order of the map.
KeysUnsorted(map) == MapKeys(map)

\* let keysArray
keysArray(map) == SortByLength(MapKeys(map))

\* The alternatives of the regular expression, in the order it tries them.
Alternatives(map) == <<<<NL>>>> \o keysArray(map)

\* The string alt stands in the text at the 0-based index i.
MatchesAt(alt, i) ==
  /\ i + Len(alt) <= Len(input)
  /\ SubSeq(input, i + 1, i + Len(alt)) = alt

\* The first of the alternatives that matches at index i, <<>> when none does.
RECURSIVE FirstMatching(_, _)
FirstMatching(alts, i) ==
  IF alts = <<>> THEN <<>>
  ELSE IF MatchesAt(Head(alts), i) THEN Head(alts)
       ELSE FirstMatching(Tail(alts), i)

\* The match of the regular expression at the scan position.
Match == FirstMatching(Alternatives(replacementMap), lastIndex)

\* A column that leaves out the length changes made so far.
ColumnWithoutOffset(i) == i - columnStartIndex

\* column: index + offset - columnStartIndex
Column(i) == i + offset - columnStartIndex

\* The texts and maps enumerated, and the examples.
InitReplace ==
  /\ NewCache
  /\ NoAssets
  /\ NoRest
  /\ last = Returned("new", "", "void", "")
  /\ \/ input \in Texts /\ replacementMap \in Maps
     \/ \E ex \in Examples : input = ex.input /\ replacementMap = ex.map
  /\ lastIndex = 0
  /\ line = 1
  /\ offset = 0
  /\ columnStartIndex = 0
  /\ offsets = <<>>
  /\ result = <<>>
  /\ matched = <<>>

\* A callback that returns nothing on a newline match.
ReplaceNewlineDropped ==
  /\ lastIndex < Len(input)
  /\ Match = <<NL>>
  /\ line' = line + 1
  /\ columnStartIndex' = lastIndex + offset + 1
  /\ lastIndex' = lastIndex + 1
  /\ UNCHANGED <<input, replacementMap, offset, offsets, matched, last,
                 result, cacheVars, assetVars, restVars>>

\* The callback on a newline match.
ReplaceNewline ==
  /\ lastIndex < Len(input)
  /\ Match = <<NL>>
  /\ line' = line + 1
  /\ columnStartIndex' = lastIndex + offset + 1
  /\ result' = result \o <<NL>>
  /\ lastIndex' = lastIndex + 1
  /\ UNCHANGED <<input, replacementMap, offset, offsets, matched, last,
                 cacheVars, assetVars,
                 restVars>>

\* A substitution that puts the replacement in the text that is still to
\* be scanned.
ReplaceTokenRescanned ==
  /\ lastIndex < Len(input)
  /\ Match \notin {<<>>, <<NL>>}
  /\ Len(matched) < 3
  /\ input' = SubSeq(input, 1, lastIndex)
                \o MapGet(replacementMap, Match)
                \o SubSeq(input, lastIndex + Len(Match) + 1, Len(input))
  /\ matched' = Append(matched,
        [index |-> lastIndex, match |-> Match, correction |-> 0])
  /\ UNCHANGED <<replacementMap, lastIndex, line, offset, columnStartIndex,
                 offsets, result, last, cacheVars, assetVars, restVars>>

\* A callback that records a correction for every substituted placeholder.
ReplaceTokenAlwaysRecords ==
  /\ lastIndex < Len(input)
  /\ Match \notin {<<>>, <<NL>>}
  /\ LET replacement == MapGet(replacementMap, Match)
         lengthDifference == Len(replacement) - Len(Match)
     IN  /\ offsets' = Append(offsets,
                          [line |-> line, column |-> Column(lastIndex),
                           offset |-> lengthDifference])
         /\ offset' = offset + lengthDifference
         /\ result' = result \o replacement
         /\ matched' = Append(matched,
               [index |-> lastIndex, match |-> Match,
                correction |-> IF lengthDifference # 0
                               THEN Len(offsets) + 1 ELSE 0])
  /\ lastIndex' = lastIndex + Len(Match)
  /\ UNCHANGED <<input, replacementMap, line, columnStartIndex, last,
                 cacheVars, assetVars,
                 restVars>>

\* The callback on a placeholder match.
ReplaceToken ==
  /\ lastIndex < Len(input)
  /\ Match \notin {<<>>, <<NL>>}
  /\ IF MapHas(replacementMap, Match)
     THEN LET replacement == MapGet(replacementMap, Match)
              lengthDifference == Len(replacement) - Len(Match)
          IN  /\ offsets' = IF lengthDifference # 0
                            THEN Append(offsets,
                                   [line |-> line, column |-> Column(lastIndex),
                                    offset |-> lengthDifference])
                            ELSE offsets
              /\ offset' = offset + lengthDifference
              /\ result' = result \o replacement
              /\ matched' = Append(matched,
                   [index |-> lastIndex, match |-> Match,
                    correction |-> IF lengthDifference # 0
                                   THEN Len(offsets) + 1 ELSE 0])
     ELSE /\ result' = result \o Match
          /\ matched' = Append(matched,
               [index |-> lastIndex, match |-> Match, correction |-> 0])
          /\ UNCHANGED <<offsets, offset>>
  /\ lastIndex' = lastIndex + Len(Match)
  /\ UNCHANGED <<input, replacementMap, line, columnStartIndex, last,
                 cacheVars, assetVars,
                 restVars>>

\* A character no alternative matches at is copied.
CopyChar ==
  /\ lastIndex < Len(input)
  /\ Match = <<>>
  /\ result' = result \o <<input[lastIndex + 1]>>
  /\ lastIndex' = lastIndex + 1
  /\ UNCHANGED <<input, replacementMap, line, offset, columnStartIndex,
                 offsets, matched, last, cacheVars, assetVars,
                 restVars>>

NextReplace ==
  \/ ReplaceNewline
  \/ ReplaceToken
  \/ CopyChar

SpecReplace == InitReplace /\ [][NextReplace]_vars

----------------------------------------------------------------------------
(* replaceURLReferences and replaceInlineReferences on the contents of one *)
(* bundle.  The texts are sequences of characters; the names are scaled    *)
(* down (a dependency id is two characters, a path segment is one).        *)

\* The dependency nodes of the bundle, in the order bundle.traverse visits
\* them.
Dependencies == <<"d1", "d2">>

DependencyNames == {Dependencies[i] : i \in DOMAIN Dependencies}

\* dependency.id: the placeholder that stands for the dependency in the
\* contents.
DependencyId(d) == IF d = "d1" THEN <<"P", "1">> ELSE <<"P", "2">>

\* dependency.moduleSpecifier: "./c" for d1, "c?q#h" for d2.
moduleSpecifier(d) ==
  IF d = "d1" THEN <<".", "/", "c">> ELSE <<"c", "?", "q", "#", "h">>

\* The bundles a dependency can reference: two that are written to a file
\* (o/c next to the current bundle, c in another directory and served from
\* another host) and three inline ones, with meta.inlineType of the first
\* entry asset unset, 'string' and something else.
ReferencedBundles == {"chunk", "cdn", "in0", "inS", "inO"}

\* The bundle the passes work on is main.
Bundle(b) ==
  CASE b = "main" ->
         [isInline |-> FALSE, distDir |-> <<"d">>, name |-> <<"m">>,
          publicUrl |-> <<"/">>, inlineType |-> "null", packaged |-> <<>>]
    [] b = "chunk" ->
         [isInline |-> FALSE, distDir |-> <<"d">>, name |-> <<"o", "c">>,
          publicUrl |-> <<"/">>, inlineType |-> "null", packaged |-> <<>>]
    [] b = "cdn" ->
         [isInline |-> FALSE, distDir |-> <<"e">>, name |-> <<"c">>,
          publicUrl |-> <<"h", ":", "/", "/", "x", "/">>,
          inlineType |-> "null", packaged |-> <<>>]
    [] b = "in0" ->
         [isInline |-> TRUE, distDir |-> <<"d">>, name |-> <<"i">>,
          publicUrl |-> <<"/">>, inlineType |-> "null", packaged |-> <<"x">>]
    [] b = "inS" ->
         [isInline |-> TRUE, distDir |-> <<"d">>, name |-> <<"j">>,
          publicUrl |-> <<"/">>, inlineType |-> "string",
          packaged |-> <<"y">>]
    [] b = "inO" ->
         [isInline |-> TRUE, distDir |-> <<"d">>, name |-> <<"k">>,
          publicUrl |-> <<"/">>, inlineType |-> "other",
          packaged |-> <<"z">>]

\* The contents given to the passes: placeholders between literal
\* characters.  The third one is import('PLACEHOLDER_1'), scaled down.
Layouts ==
  {<<"d1">>, <<"d2", "d1">>, <<"i", "(", "'", "d1", "'", ")">>,
   <<"d2", NL, "x", "d1", "d1">>}

\* The text of a layout, with shown[d] in the place of the dependency d.
RECURSIVE Render(_, _)
Render(items, shown) ==
  IF items = <<>> THEN <<>>
  ELSE (IF Head(items) \in DependencyNames THEN shown[Head(items)]
        ELSE <<Head(items)>>) \o Render(Tail(items), shown)

\* bundleGraph.getReferencedBundle(dependency, bundle), "none" for null
getReferencedBundle(d) == graph[d].bundle

\* The index of the first ch in text, Len(text) + 1 when there is none.
IndexOf(text, ch) ==
  IF \E i \in DOMAIN text : text[i] = ch
  THEN CHOOSE i \in DOMAIN text :
         text[i] = ch /\ \A j \in 1 .. (i - 1) : text[j] # ch
  ELSE Len(text) + 1

\* URL.parse(specifier), for a specifier without protocol and host: the
\* fragment starts at the first #, the query at the first ? before it.
URLparse(specifier) ==
  LET hashAt == IndexOf(specifier, "#")
      beforeHash == SubSeq(specifier, 1, hashAt - 1)
      searchAt == IndexOf(beforeHash, "?")
  IN  [pathname |-> SubSeq(beforeHash, 1, searchAt - 1),
       search |-> SubSeq(beforeHash, searchAt, Len(beforeHash)),
       hash |-> SubSeq(specifier, hashAt, Len(specifier))]

\* URL.format(url)
URLformat(url) == url.pathname \o url.search \o url.hash

\* The characters of a path given by its segments.
RECURSIVE PathString(_)
PathString(segments) ==
  IF segments = <<>> THEN <<>>
  ELSE (IF Head(segments) = ".." THEN <<".", ".">> ELSE <<Head(segments)>>)
       \o (IF Len(segments) > 1 THEN <<"/">> ELSE <<>>)
       \o PathString(Tail(segments))

\* The number of leading segments two paths share.
CommonSegments(p, q) ==
  CHOOSE n \in 0 .. Min(Len(p), Len(q)) :
    /\ SubSeq(p, 1, n) = SubSeq(q, 1, n)
    /\ \A m \in (n + 1) .. Min(Len(p), Len(q)) :
         SubSeq(p, 1, m) # SubSeq(q, 1, m)

\* relativeBundlePath(from, to, {leadingDotSlash}): the path of the file of
\* to, relative to the directory of the file of from.
relativeBundlePath(from, to, leadingDotSlash) ==
  LET fromPath == Bundle(from).distDir \o Bundle(from).name
      fromDir == SubSeq(fromPath, 1, Len(fromPath) - 1)
      toPath == Bundle(to).distDir \o Bundle(to).name
      shared == CommonSegments(fromDir, toPath)
      path == [i \in 1 .. (Len(fromDir) - shared) |-> ".."]
                \o SubSeq(toPath, shared + 1, Len(toPath))
  IN  (IF leadingDotSlash /\ path[1] # ".." THEN <<".", "/">> ELSE <<>>)
        \o PathString(path)

\* urlJoin(publicUrl, assetPath): one slash between the two.
urlJoin(publicUrl, assetPath) ==
  (IF publicUrl # <<>> /\ publicUrl[Len(publicUrl)] = "/"
   THEN SubSeq(publicUrl, 1, Len(publicUrl) - 1) ELSE publicUrl)
    \o (IF assetPath # <<>> /\ assetPath[1] = "/" THEN assetPath
        ELSE <<"/">> \o assetPath)

\* A getURLReplacement that asks for the leading ./ of the relative path
\* and joins the bare name in absolute mode.
getURLReplacementBare(d, fromBundle, toBundle, isRelative) ==
  LET url == URLparse(moduleSpecifier(d))
  IN  [id |-> d, from |-> DependencyId(d),
       to |-> IF isRelative
              THEN URLformat([url EXCEPT !.pathname =
                     relativeBundlePath(fromBundle, toBundle, TRUE)])
              ELSE urlJoin(Bundle(toBundle).publicUrl,
                           PathString(Bundle(toBundle).name))]

\* getURLReplacement({dependency, fromBundle, toBundle, relative})
getURLReplacement(d, fromBundle, toBundle, isRelative) ==
  LET url == URLparse(moduleSpecifier(d))
  IN  [id |-> d, from |-> DependencyId(d),
       to |-> IF isRelative
              THEN URLformat([url EXCEPT !.pathname =
                     relativeBundlePath(fromBundle, toBundle, FALSE)])
              ELSE urlJoin(Bundle(toBundle).publicUrl,
                     URLformat([url EXCEPT !.pathname =
                       PathString(Bundle(toBundle).name)]))]

\* An entry for an unresolved dependency that goes through getURLReplacement
\* of the bundle itself.
ExternalReplacementRewritten(d) ==
  getURLReplacement(d, "main", "main", relative)

\* The entry for a URL dependency that references no bundle.
ExternalReplacement(d) ==
  [id |-> d, from |-> DependencyId(d), to |-> moduleSpecifier(d)]

\* The loop body of replaceURLReferences without the test for an inline
\* bundle.
URLReplacementUnlessExternal(d) ==
  IF ~graph[d].isURL THEN <<>>
  ELSE IF getReferencedBundle(d) = "none" THEN <<ExternalReplacement(d)>>
  ELSE <<getURLReplacement(d, "main", getReferencedBundle(d), relative)>>

\* The loop body of replaceURLReferences: what it puts in replacements for
\* the dependency d.
URLReplacement(d) ==
  IF ~graph[d].isURL THEN <<>>
  ELSE IF getReferencedBundle(d) = "none" THEN <<ExternalReplacement(d)>>
  ELSE IF Bundle(getReferencedBundle(d)).isInline THEN <<>>
  ELSE <<getURLReplacement(d, "main", getReferencedBundle(d), relative)>>

\* getInlineBundleContents(entryBundle, bundleGraph), as a string
getInlineBundleContents(b) == Bundle(b).packaged

\* getInlineReplacement(dependency, inlineType, packagedContents) of the
\* caller: a string literal for 'string', the contents otherwise.
getInlineReplacement(d, inlineType, packagedContents) ==
  [id |-> d, from |-> DependencyId(d),
   to |-> IF inlineType = "string"
          THEN <<"\"">> \o packagedContents \o <<"\"">>
          ELSE packagedContents]

\* The loop body of replaceInlineReferences without the test of the inline
\* type.
InlineReplacementAnyType(d) ==
  IF getReferencedBundle(d) = "none" THEN <<>>
  ELSE IF ~Bundle(getReferencedBundle(d)).isInline THEN <<>>
  ELSE <<getInlineReplacement(d, Bundle(getReferencedBundle(d)).inlineType,
           getInlineBundleContents(getReferencedBundle(d)))>>

\* The loop body of replaceInlineReferences: what it puts in replacements
\* for the dependency d.
InlineReplacement(d) ==
  IF getReferencedBundle(d) = "none" THEN <<>>
  ELSE IF ~Bundle(getReferencedBundle(d)).isInline THEN <<>>
  ELSE IF Bundle(getReferencedBundle(d)).inlineType \in {"null", "string"}
  THEN <<getInlineReplacement(d, Bundle(getReferencedBundle(d)).inlineType,
           getInlineBundleContents(getReferencedBundle(d)))>>
  ELSE <<>>

\* new Map([...replacements.values()].map(val => [val.from, val.to])): a
\* key given twice keeps its first place and takes the later value.
RECURSIVE NewMap(_, _)
NewMap(map, values) ==
  IF values = <<>> THEN map
  ELSE NewMap(IF MapHas(map, Head(values).from)
              THEN [i \in DOMAIN map |->
                      IF map[i].from = Head(values).from
                      THEN [from |-> map[i].from, to |-> Head(values).to]
                      ELSE map[i]]
              ELSE Append(map, [from |-> Head(values).from,
                                to |-> Head(values).to]),
              Tail(values))

\* performReplacement(replacements, contents): regexReplaceWithLocations
\* starts on the contents.
performReplacement(values, text) ==
  /\ input' = text
  /\ replacementMap' = NewMap(<<>>, values)
  /\ lastIndex' = 0
  /\ line' = 1
  /\ offset' = 0
  /\ columnStartIndex' = 0
  /\ offsets' = <<>>
  /\ result' = <<>>
  /\ matched' = <<>>

\* The replacements of the loop of replaceURLReferences over the
\* dependencies from index i on.
RECURSIVE URLReplacements(_)
URLReplacements(i) ==
  IF i > Len(Dependencies) THEN <<>>
  ELSE URLReplacement(Dependencies[i]) \o URLReplacements(i + 1)

\* A bundle with its graph, its contents and the mode of the URL pass.
InitRefs ==
  /\ NewCache
  /\ NoAssets
  /\ NoReader
  /\ committed = {}
  /\ pipe = NoPipe
  /\ NoReplacement
  /\ last = Returned("new", "", "void", "")
  /\ graph \in [DependencyNames ->
                 [isURL : BOOLEAN, bundle : {"none"} \cup ReferencedBundles]]
  /\ relative \in BOOLEAN
  /\ layout \in Layouts
  /\ bundleContents = Render(layout, [d \in DependencyNames |-> DependencyId(d)])
  /\ pass = NoPass
  /\ replacements = [url |-> <<>>, inline |-> <<>>]
  /\ finished = {}
  /\ sourceMap \in {NoSourceMap, [NoSourceMap EXCEPT !.attached = TRUE]}

\* replaceURLReferences({bundle, bundleGraph, contents, relative}), up to
\* the call of regexReplaceWithLocations.
ReplaceURLReferences ==
  /\ pass.name = "none"
  /\ "url" \notin finished
  /\ replacements' = [replacements EXCEPT !.url = URLReplacements(1)]
  /\ performReplacement(replacements'.url, bundleContents)
  /\ pass' = [NoPass EXCEPT !.name = "url"]
  /\ sourceMap' = [sourceMap EXCEPT !.before = Len(sourceMap.offsetColumns)]
  /\ last' = Returned("replaceURLReferences called", "", "void", "")
  /\ UNCHANGED <<graph, relative, layout, bundleContents, finished,
                 cacheVars, assetVars, besidesRefs>>

\* replaceInlineReferences({bundle, bundleGraph, contents, ...}), up to its
\* loop.
ReplaceInlineReferences ==
  /\ pass.name = "none"
  /\ "inline" \notin finished
  /\ "inline failed" \notin finished
  /\ replacements' = [replacements EXCEPT !.inline = <<>>]
  /\ pass' = [NoPass EXCEPT !.name = "inline", !.next = 1]
  /\ sourceMap' = [sourceMap EXCEPT !.before = Len(sourceMap.offsetColumns)]
  /\ last' = Returned("replaceInlineReferences called", "", "void", "")
  /\ UNCHANGED <<graph, relative, layout, bundleContents, finished,
                 cacheVars, assetVars, replVars, besidesRefs>>

\* The dependency d references an inline bundle: entryBundle?.isInline
IsInlineEntry(d) ==
  /\ getReferencedBundle(d) # "none"
  /\ Bundle(getReferencedBundle(d)).isInline

\* A loop that calls getInlineBundleContents and goes on to the next
\* dependency without awaiting it.
InlineIterationEager ==
  /\ pass.name = "inline"
  /\ pass.next \in DOMAIN Dependencies
  /\ pass' = IF IsInlineEntry(Dependencies[pass.next])
             THEN [pass EXCEPT !.inFlight = @ \cup {Dependencies[pass.next]},
                               !.calls = Append(@, Dependencies[pass.next]),
                               !.next = @ + 1]
             ELSE [pass EXCEPT !.next = @ + 1]
  /\ last' = Returned("iteration", Dependencies[pass.next], "void", "")
  /\ UNCHANGED <<graph, relative, layout, bundleContents, replacements,
                 finished, sourceMap, cacheVars, assetVars, replVars,
                 besidesRefs>>

\* The start of one iteration of the loop of replaceInlineReferences: the
\* next dependency is skipped when its bundle is not inline, otherwise
\* getInlineBundleContents is called and awaited.
InlineIteration ==
  /\ pass.name = "inline"
  /\ pass.next \in DOMAIN Dependencies
  /\ pass.inFlight = {}
  /\ pass' = IF IsInlineEntry(Dependencies[pass.next])
             THEN [pass EXCEPT !.inFlight = {Dependencies[pass.next]},
                               !.calls = Append(@, Dependencies[pass.next])]
             ELSE [pass EXCEPT !.next = @ + 1]
  /\ last' = Returned("iteration", Dependencies[pass.next], "void", "")
  /\ UNCHANGED <<graph, relative, layout, bundleContents, replacements,
                 finished, sourceMap, cacheVars, assetVars, replVars,
                 besidesRefs>>

\* The packaged contents have arrived and their stream is drained: the
\* rest of the iteration.
InlineContentsResolved ==
  /\ pass.name = "inline"
  /\ \E d \in pass.inFlight :
       /\ replacements' = [replacements EXCEPT !.inline =
                             @ \o InlineReplacement(d)]
       /\ pass' = [pass EXCEPT !.inFlight = @ \ {d}, !.next = @ + 1]
       /\ last' = Returned("packaged", d, "void", "")
  /\ UNCHANGED <<graph, relative, layout, bundleContents, finished,
                 sourceMap, cacheVars, assetVars, replVars, besidesRefs>>

\* getInlineBundleContents or the drain of its stream has failed: the
\* await throws and replaceInlineReferences rejects.
InlineContentsRejected ==
  /\ pass.name = "inline"
  /\ pass.inFlight # {}
  /\ pass' = NoPass
  /\ finished' = finished \cup {"inline failed"}
  /\ last' = Returned("inline", "", "error", "packaging")
  /\ UNCHANGED <<graph, relative, layout, bundleContents, replacements,
                 sourceMap, cacheVars, assetVars, replVars, besidesRefs>>

\* The loop of replaceInlineReferences has ended: performReplacement.
InlinePerform ==
  /\ pass.name = "inline"
  /\ pass.next = Len(Dependencies) + 1
  /\ performReplacement(replacements.inline, bundleContents)
  /\ pass' = [pass EXCEPT !.next = 0]
  /\ last' = Returned("performReplacement called", "", "void", "")
  /\ UNCHANGED <<graph, relative, layout, bundleContents, replacements,
                 finished, sourceMap, cacheVars, assetVars, besidesRefs>>

\* A performReplacement that returns the map it was given without a call
\* on it.
PassReturnsMapAsGiven ==
  /\ pass.name # "none"
  /\ pass.next = 0
  /\ lastIndex = Len(input)
  /\ bundleContents' = result
  /\ finished' = finished \cup {pass.name}
  /\ pass' = NoPass
  /\ last' = [op |-> pass.name, key |-> "",
              res |-> [kind |-> "value", val |-> "contents"],
              map |-> sourceMap.attached]
  /\ UNCHANGED <<graph, relative, layout, replacements, sourceMap,
                 cacheVars, assetVars, replVars, besidesRefs>>

\* regexReplaceWithLocations has ended: performReplacement calls
\* map.offsetColumns for every offset when there is a map, and the pass
\* returns the new contents with the map it was given.
PassReturns ==
  /\ pass.name # "none"
  /\ pass.next = 0
  /\ lastIndex = Len(input)
  /\ bundleContents' = result
  /\ sourceMap' = IF sourceMap.attached
                  THEN [sourceMap EXCEPT !.offsetColumns = @ \o offsets]
                  ELSE sourceMap
  /\ finished' = finished \cup {pass.name}
  /\ pass' = NoPass
  /\ last' = [op |-> pass.name, key |-> "",
              res |-> [kind |-> "value", val |-> "contents"],
              map |-> sourceMap.attached]
  /\ UNCHANGED <<graph, relative, layout, replacements,
                 cacheVars, assetVars, replVars, besidesRefs>>

NextRefs ==
  \/ ReplaceURLReferences
  \/ ReplaceInlineReferences
  \/ InlineIteration
  \/ InlineContentsResolved
  \/ InlineContentsRejected
  \/ InlinePerform
  \/ ReplaceNewline
  \/ ReplaceToken
  \/ CopyChar
  \/ PassReturns

SpecRefs == InitRefs /\ [][NextRefs]_vars

----------------------------------------------------------------------------
(* Claims about the cache *)

\* The chunk indices of the most recent setLargeBlob call.
CallChunks == 0 .. (NumChunks(call.contents) - 1)

\* The last operation read the large blob of the key of the most recent
\* setLargeBlob call, which has resolved.
ReadAfterResolved ==
  /\ last.op = "getLargeBlob"
  /\ call.status = "resolved"
  /\ last.key = call.key

\* C1: overwrites of a large blob are full replacements: after two
\* setLargeBlob calls on a key that both resolved, getLargeBlob returns
\* exactly the payload of the second.
C1_OverwriteReplaces ==
  (ReadAfterResolved /\ call.prevOk) => last.res.val = call.contents

\* C2: chunk round trip: after a setLargeBlob that resolved on a key that
\* held no chunk when it was called, getLargeBlob returns the payload.
C2_RoundTrip ==
  (ReadAfterResolved /\ call.fresh) => last.res.val = call.contents

\* A payload of several chunks, the last one partial, was read back.
C2_Witness ==
  /\ ReadAfterResolved
  /\ call.fresh
  /\ Len(call.contents) = MaxLen
  /\ NumChunks(call.contents) >= 2
  /\ last.res.val = call.contents

\* C7: hasLargeBlob(key) returns true exactly when the file of chunk 0
\* exists, whichever other chunk files exist.
C7_HasLargeBlob ==
  last.op = "hasLargeBlob" =>
    (last.res.val <=> exists(getFilePath(last.key, 0)))

\* hasLargeBlob returned false although chunk 1 of the key exists.
C7_Witness ==
  /\ last.op = "hasLargeBlob"
  /\ last.res.val = FALSE
  /\ exists(getFilePath(last.key, 1))

\* C8: every chunk write of a setLargeBlob call is issued once, before any
\* is awaited; the call resolves only when all of them succeeded and is
\* rejected as soon as one failed; the chunks that were written stay.
C8_FanOutFanIn ==
  call.status # "none" =>
    /\ call.pending \cup call.written \cup call.failed = CallChunks
    /\ call.pending \cap call.written = {}
    /\ call.failed \cap (call.pending \cup call.written) = {}
    /\ call.status = "resolved" => call.written = CallChunks
    /\ call.status = "running" => (call.failed = {} /\ call.pending # {})
    /\ call.status = "rejected" <=> call.failed # {}
    /\ \A i \in call.written :
         /\ exists(getFilePath(call.key, i))
         /\ fs[getFilePath(call.key, i)] = ChunkData(call.contents, i)

\* A call that failed and left some of its chunks written.
C8_Witness ==
  /\ call.status = "rejected"
  /\ call.pending = {}
  /\ call.written # {}
  /\ call.failed # {}
  /\ call.written \cup call.failed = CallChunks

ReadOps == {"has", "get", "getBlob", "getBuffer", "hasLargeBlob", "getLargeBlob"}

\* What get, getBlob and getBuffer return, from the history of the key.
C9_Outcomes ==
  /\ (last.op \in {"get", "getBuffer"} /\ lastPut[last.key] = "none")
       => last.res.kind = "absent"
  /\ (last.op = "getBlob" /\ lastPut[last.key] = "none")
       => last.res.kind = "error"
  /\ (last.op \in {"getBlob", "getBuffer"} /\ lastPut[last.key] # "none")
       => (last.res.kind = "value" /\ last.res.val = store[last.key])
  /\ (last.op = "get" /\ lastPut[last.key] = "set")
       => (last.res.kind = "value" /\ last.res.val = lastSet[last.key])

\* C9: on a key without a value get and getBuffer return absent and getBlob
\* fails with a not-found error; on a key with a value getBlob and getBuffer
\* return the stored bytes and get the value that was set; none of them
\* changes the store or the files.
C9_MissingKey ==
  /\ []C9_Outcomes
  /\ [][last'.op \in ReadOps => (store' = store /\ fs' = fs)]_vars

\* getBlob failed on a key without a value while the other key has one.
C9_Witness ==
  /\ last.op = "getBlob"
  /\ last.res.kind = "error"
  /\ last.key \notin DOMAIN store
  /\ DOMAIN store # {}

\* C10 as stated: has(key) tells whether the store holds an entry for key and
\* get(key) returns the value of the most recent set(key, value).
C10_GetReturnsLastSet ==
  /\ last.op = "has" => (last.res.val <=> lastPut[last.key] # "none")
  /\ (last.op = "get" /\ lastSet[last.key] # "none")
       => (last.res.kind = "value" /\ last.res.val = lastSet[last.key])

\* C10: has(key) is true exactly when a set or a setBlob on key completed,
\* whatever setStream and setLargeBlob calls were made; get(key) returns
\* nothing before that, and the value of the most recent set(key, value)
\* when no setBlob(key, ...) came after it.
C10_HasAndGet ==
  /\ last.op = "has" => (last.res.val <=> lastPut[last.key] # "none")
  /\ (last.op = "get" /\ lastPut[last.key] = "none")
       => last.res.kind = "absent"
  /\ (last.op = "get" /\ lastPut[last.key] = "set")
       => (last.res.kind = "value" /\ last.res.val = lastSet[last.key])

\* get returned the value of a set that replaced another value, on a key
\* that also got a stream and a large blob.
C10_Witness ==
  /\ last.op = "get"
  /\ lastPut[last.key] = "set"
  /\ replaced[last.key]
  /\ last.res.val = lastSet[last.key]
  /\ exists(last.key)
  /\ call.status = "resolved"
  /\ call.key = last.key

----------------------------------------------------------------------------
(* Claims about the asset wrappers *)

\* The identity a constructor call was made for.
IdentityAsked ==
  IF last.op = "new CommittedAsset" THEN AddrOf(last.key) ELSE ValueOf(last.key)

\* Every entry of a registry is a wrapper of its class for its key.
RegistryOf(class, map) ==
  \A id \in DOMAIN map :
    /\ map[id] \in WrappersOf(class)
    /\ IdentityOf(map[id]) = id

C4_ViewsShareWrites ==
  (/\ last.op = "read"
   /\ wrappers[last.key].class = "Asset"
   /\ lastWrite.prop = last.prop
   /\ lastWrite.value = ValueOf(wrappers[last.key].asset))
  => last.res.val = lastWrite.val

\* C12: the unique key of an asset is set once.  Once the asset value holds
\* a unique key, no step changes it, and every assignment of uniqueKey
\* through a MutableAsset (the same key included) throws and leaves the
\* asset value as it was.
C12_UniqueKeySetOnce ==
  [][/\ \A v \in DOMAIN assetValues :
          assetValues[v].uniqueKey # "null" =>
            assetValues'[v].uniqueKey = assetValues[v].uniqueKey
     /\ (last'.op = "write" /\ last'.prop = "uniqueKey"
           /\ ValueBehind(last'.key).uniqueKey # "null") =>
          (last'.res.kind = "error" /\ assetValues' = assetValues)]_vars

\* The key an asset already has is assigned again, and the setter throws.
C12_Witness ==
  /\ last.op = "write"
  /\ last.prop = "uniqueKey"
  /\ last.res.kind = "error"
  /\ last.arg = ValueBehind(last.key).uniqueKey
  /\ last.arg # "null"

\* C13: once an asset has been committed, every mutation through its
\* MutableAsset (type, the flags, setEnvironment, ...) fails with an error
\* and changes nothing.
C13_MutationAfterCommitFails ==
  [][(last'.op = "write"
        /\ ValueOf(wrappers[last'.key].asset) \in committed) =>
       (last'.res.kind = "error" /\ assetValues' = assetValues)]_vars

----------------------------------------------------------------------------
(* Claims about regexReplaceWithLocations *)

\* input.replace has scanned the whole text.
Done == lastIndex = Len(input)

\* The number of newlines of the input before the 0-based index i.
NewlinesBefore(i) == Cardinality({j \in 1 .. i : input[j] = NL})

\* The 0-based index just after the last newline of the input before index
\* i, 0 when there is none.
LineStart(i) ==
  IF NewlinesBefore(i) = 0 THEN 0
  ELSE CHOOSE j \in 1 .. i :
         input[j] = NL /\ \A k \in (j + 1) .. i : input[k] # NL

\* The sum of the deltas of the first n corrections that are on line ln.
RECURSIVE DeltasOnLine(_, _)
DeltasOnLine(n, ln) ==
  IF n = 0 THEN 0
  ELSE DeltasOnLine(n - 1, ln)
         + (IF offsets[n].line = ln THEN offsets[n].offset ELSE 0)

\* The matches that produced a correction.
Corrected == {k \in DOMAIN matched : matched[k].correction # 0}

\* Every correction has the line and the delta of its match.
LineAndDelta ==
  /\ Cardinality(Corrected) = Len(offsets)
  /\ \A k \in Corrected :
       /\ matched[k].correction \in DOMAIN offsets
       /\ offsets[matched[k].correction].line
            = 1 + NewlinesBefore(matched[k].index)
       /\ offsets[matched[k].correction].offset
            = Len(MapGet(replacementMap, matched[k].match))
                - Len(matched[k].match)

\* The example: a 3-character token replaced by 10 characters at line 2,
\* column 5.
OffsetExampleResult ==
  (input = OffsetExample.input /\ replacementMap = OffsetExample.map /\ Done)
    => offsets = <<[line |-> 2, column |-> 5, offset |-> 7]>>

\* C5 as stated: every correction has the column of its placeholder in the
\* original text, with the line and the delta of its match.
C5_ColumnInOriginalText ==
  /\ LineAndDelta
  /\ OffsetExampleResult
  /\ \A k \in Corrected :
       offsets[matched[k].correction].column
         = matched[k].index - LineStart(matched[k].index)

\* C5: every correction has the column of its placeholder in the original
\* text plus the deltas of the earlier corrections on the same line, with
\* the line and the delta of its match.
C5_ColumnInRewrittenLine ==
  /\ LineAndDelta
  /\ OffsetExampleResult
  /\ \A k \in Corrected :
       offsets[matched[k].correction].column
         = matched[k].index - LineStart(matched[k].index)
             + DeltasOnLine(matched[k].correction - 1,
                            offsets[matched[k].correction].line)

\* Two length-changing placeholders on one line after the first: the column
\* of the second is not its column in the original text.
C5_Witness ==
  /\ Done
  /\ Len(offsets) >= 2
  /\ offsets[1].line = offsets[2].line
  /\ offsets[2].line >= 2
  /\ \E k \in Corrected :
       /\ matched[k].correction = 2
       /\ offsets[2].column # matched[k].index - LineStart(matched[k].index)

\* The tokens of the map that stand in the text at index i.
TokensAt(i) ==
  {k \in DOMAIN replacementMap : MatchesAt(replacementMap[k].from, i)}

\* C6: the token substituted at a position is the longest token of the map
\* that stands there; "abc" -> "X" and "abcdef" -> "Y" turn "abcdef" into "Y".
C6_LongestMatch ==
  /\ \A m \in DOMAIN matched :
       \A k \in TokensAt(matched[m].index) :
         Len(replacementMap[k].from) <= Len(matched[m].match)
  /\ (input = PrefixExample.input /\ replacementMap = PrefixExample.map
        /\ Done) => result = <<"Y">>

\* Two tokens stood at the position of a match, the shorter one first in the
\* map, and the text is the replacement of the longer one.
C6_Witness ==
  /\ Done
  /\ Len(matched) = 1
  /\ Cardinality(TokensAt(matched[1].index)) = 2
  /\ Len(replacementMap[1].from) < Len(replacementMap[2].from)
  /\ matched[1].match = replacementMap[2].from
  /\ result = replacementMap[2].to
  /\ result # <<>>

----------------------------------------------------------------------------
(* Claims about two processes on one cache directory *)

\* C11: once the reading process has called refresh(), each of its reads
\* returns what the database held at the refresh or after a later commit:
\* no write the other process completed before the refresh is missed.  (A
\* read transaction that is never reset keeps the version it was opened on.)
C11_ReadAfterRefresh ==
  (last.op \in {"readerGet", "readerHas"} /\ refreshedAt.done) =>
    \E v \in refreshedAt.version .. Len(versions) :
      last.res = IF last.op = "readerGet" THEN GetFrom(versions[v], last.key)
                 ELSE HasFrom(versions[v], last.key)

\* A get after a refresh returns a value that the transaction the reader
\* held before the refresh did not show.
C11_Witness ==
  /\ last.op = "readerGet"
  /\ refreshedAt.done
  /\ refreshedAt.old > 0
  /\ last.res.kind = "value"
  /\ last.res = GetFrom(versions[refreshedAt.version], last.key)
  /\ last.res # GetFrom(versions[refreshedAt.old], last.key)

----------------------------------------------------------------------------
(* Claims about setStream *)

\* C14: a setStream call that has resolved has read its source to the end
\* and the file of the key holds every byte of it; a setStream call whose
\* source emitted an error has failed, and the key holds what it held
\* before the call (nothing, or the earlier data), never the part that was
\* read before the error.
C14_StreamDrained ==
  /\ pipe.status = "resolved" =>
       /\ pipe.source = <<>>
       /\ FileAt(pipe.key) = <<pipe.all>>
  /\ pipe.status = "rejected" =>
       /\ last = Returned("setStream", pipe.key, "error", "stream")
       /\ FileAt(pipe.key) = pipe.before
  /\ (last.op = "setStream" /\ last.res.kind = "void") =>
       pipe.status = "resolved"

\* A stream that fails after its first chunk, given for a key that already
\* has data.
C14_Witness ==
  /\ pipe.status = "rejected"
  /\ pipe.written # <<>>
  /\ pipe.before # <<>>
  /\ pipe.before # <<pipe.written>>

----------------------------------------------------------------------------
(* Claims about replaceURLReferences and replaceInlineReferences *)

\* The dependencies a Map replacements has an entry for.
Registered(values) == {values[i].id : i \in DOMAIN values}

\* The entry of the dependency d in a Map replacements that has one.
EntryOf(values, d) == values[CHOOSE i \in DOMAIN values : values[i].id = d]

\* What stands in the place of d after a pass: the replacement when the
\* pass registered one, the placeholder otherwise.
Shown(values, d) ==
  IF d \in Registered(values) THEN EntryOf(values, d).to ELSE DependencyId(d)

\* The dependencies the contents have a placeholder of.
InLayout == {layout[i] : i \in DOMAIN layout} \cap DependencyNames

\* A URL dependency that references no bundle.
External(d) == graph[d].isURL /\ graph[d].bundle = "none"

\* C15: replaceURLReferences, with relative true or false, registers for
\* every URL dependency without a referenced bundle the replacement of its
\* placeholder by its moduleSpecifier, and registers nothing for a
\* dependency that is not a URL dependency; in the contents it returns the
\* placeholders of the former are the specifier, character for character,
\* and the placeholders of the latter are still there.
C15_ExternalSpecifierKept ==
  /\ (pass.name = "url" \/ "url" \in finished) =>
       \A d \in DependencyNames :
         /\ External(d) =>
              /\ d \in Registered(replacements.url)
              /\ EntryOf(replacements.url, d).from = DependencyId(d)
              /\ EntryOf(replacements.url, d).to = moduleSpecifier(d)
         /\ ~graph[d].isURL => d \notin Registered(replacements.url)
  /\ finished = {"url"} =>
       bundleContents =
         Render(layout,
                [d \in DependencyNames |->
                   IF External(d) THEN moduleSpecifier(d)
                   ELSE IF ~graph[d].isURL THEN DependencyId(d)
                   ELSE Shown(replacements.url, d)])

\* The URL pass in absolute mode has returned contents that had the
\* placeholder of an external URL dependency and the placeholder of a
\* dependency that is not a URL dependency.
C15_Witness ==
  /\ finished = {"url"}
  /\ ~relative
  /\ \E d \in InLayout : External(d)
  /\ \E d \in InLayout : ~graph[d].isURL /\ graph[d].bundle # "none"

\* C16: the two passes never register a replacement for the same
\* dependency: the URL pass registers none for a dependency whose bundle is
\* inline, the inline pass registers only for those.
C16_PassesDisjoint ==
  /\ Registered(replacements.url) \cap Registered(replacements.inline) = {}
  /\ \A d \in Registered(replacements.url) :
       graph[d].bundle = "none" \/ ~Bundle(graph[d].bundle).isInline
  /\ \A d \in Registered(replacements.inline) :
       graph[d].bundle # "none" /\ Bundle(graph[d].bundle).isInline

\* Both passes have run on contents with a URL dependency on an inline
\* bundle, and each pass registered a replacement.
C16_Witness ==
  /\ finished = {"url", "inline"}
  /\ Registered(replacements.url) # {}
  /\ Registered(replacements.inline) # {}
  /\ \E d \in InLayout :
       /\ graph[d].isURL
       /\ d \in Registered(replacements.inline)

\* The dependency d references an inline bundle.
Inline(d) == graph[d].bundle # "none" /\ Bundle(graph[d].bundle).isInline

\* The inline type of the first entry asset of the bundle of d is unset or
\* 'string'.
Substitutable(d) == Bundle(graph[d].bundle).inlineType \in {"null", "string"}

\* The loop of replaceInlineReferences has ended.
InlineLoopEnded ==
  \/ pass.name = "inline" /\ pass.next \notin DOMAIN Dependencies
  \/ "inline" \in finished

\* C17: replaceInlineReferences registers for a dependency on an inline
\* bundle the result of getInlineReplacement(dependency, inlineType,
\* packaged contents) exactly when the inline type is unset or 'string';
\* the placeholder of an inline dependency of another type is still in the
\* contents the pass returns.
C17_InlineSkipRule ==
  /\ InlineLoopEnded =>
       \A d \in DependencyNames :
         /\ d \in Registered(replacements.inline) <=>
              (Inline(d) /\ Substitutable(d))
         /\ d \in Registered(replacements.inline) =>
              EntryOf(replacements.inline, d) =
                getInlineReplacement(d, Bundle(graph[d].bundle).inlineType,
                                     Bundle(graph[d].bundle).packaged)
  /\ finished = {"inline"} =>
       bundleContents =
         Render(layout,
                [d \in DependencyNames |->
                   IF Inline(d) /\ Substitutable(d)
                   THEN getInlineReplacement(d,
                          Bundle(graph[d].bundle).inlineType,
                          Bundle(graph[d].bundle).packaged).to
                   ELSE DependencyId(d)])

\* The inline pass has returned contents that had the placeholder of a
\* dependency of type 'string' and the placeholder of a dependency of
\* another type.
C17_Witness ==
  /\ finished = {"inline"}
  /\ \E d \in InLayout : graph[d].bundle = "inS"
  /\ \E d \in InLayout : graph[d].bundle = "inO"

\* A URL dependency that references a bundle which is not inline.
Bundled(d) ==
  /\ graph[d].isURL
  /\ graph[d].bundle # "none"
  /\ ~Bundle(graph[d].bundle).isInline

\* The query and the fragment of a specifier: what follows its path.
QueryAndFragment(specifier) ==
  SubSeq(specifier,
         Min(IndexOf(specifier, "?"), IndexOf(specifier, "#")),
         Len(specifier))

\* import('PLACEHOLDER_1') with the dependency on the bundle o/c next to
\* the current bundle, in relative mode, after the URL pass.
ImportExample ==
  /\ layout = <<"i", "(", "'", "d1", "'", ")">>
  /\ graph["d1"] = [isURL |-> TRUE, bundle |-> "chunk"]
  /\ relative
  /\ finished = {"url"}

\* C18 as stated: in relative mode the replacement is the specifier with
\* its path replaced by the relative path to the target bundle, in absolute
\* mode the public URL joined with the name of the target bundle; the
\* import example gives import('./o/c').
C18_PathOrName ==
  /\ \A d \in Registered(replacements.url) :
       Bundled(d) =>
         EntryOf(replacements.url, d).to =
           IF relative
           THEN relativeBundlePath("main", graph[d].bundle, FALSE)
                  \o QueryAndFragment(moduleSpecifier(d))
           ELSE urlJoin(Bundle(graph[d].bundle).publicUrl,
                        PathString(Bundle(graph[d].bundle).name))
  /\ ImportExample =>
       bundleContents = <<"i", "(", "'", ".", "/", "o", "/", "c", "'", ")">>

\* C18: the replacement of a URL dependency on a bundle that is not inline
\* is, in relative mode, the relative path from the directory of the
\* current bundle to the target bundle, without a leading ./, followed by
\* the query and the fragment of the specifier; in absolute mode it is the
\* public URL of the target joined with the name of the target followed by
\* the query and the fragment of the specifier.  The import example gives
\* import('o/c').
C18_SpecifierWithPathReplaced ==
  /\ \A d \in Registered(replacements.url) :
       Bundled(d) =>
         EntryOf(replacements.url, d).to =
           IF relative
           THEN relativeBundlePath("main", graph[d].bundle, FALSE)
                  \o QueryAndFragment(moduleSpecifier(d))
           ELSE urlJoin(Bundle(graph[d].bundle).publicUrl,
                        PathString(Bundle(graph[d].bundle).name)
                          \o QueryAndFragment(moduleSpecifier(d)))
  /\ (pass.name = "url" \/ "url" \in finished) =>
       \A d \in DependencyNames :
         Bundled(d) => d \in Registered(replacements.url)
  /\ ImportExample =>
       bundleContents = <<"i", "(", "'", "o", "/", "c", "'", ")">>

\* The URL pass in absolute mode has replaced the placeholder of a
\* dependency whose specifier has a query and a fragment by the URL of a
\* bundle on another host.
C18_Witness ==
  /\ finished = {"url"}
  /\ ~relative
  /\ "d2" \in InLayout
  /\ Bundled("d2")
  /\ graph["d2"].bundle = "cdn"
  /\ EntryOf(replacements.url, "d2").to =
       <<"h", ":", "/", "/", "x", "/", "c", "?", "q", "#", "h">>

----------------------------------------------------------------------------
(* Further claims about regexReplaceWithLocations *)

\* C21: the corrections are emitted in text order.  A substituted
\* placeholder has a correction exactly when its replacement differs in
\* length from the token, each correction belongs to one match, later
\* matches have later corrections, the lines of the corrections never
\* decrease and on one line their columns never decrease.
C21_CorrectionsInTextOrder ==
  /\ \A k \in DOMAIN matched :
       (matched[k].correction # 0) <=>
         (/\ MapHas(replacementMap, matched[k].match)
          /\ Len(MapGet(replacementMap, matched[k].match))
               # Len(matched[k].match))
  /\ Cardinality(Corrected) = Len(offsets)
  /\ \A k \in Corrected : matched[k].correction \in DOMAIN offsets
  /\ \A j \in DOMAIN matched : \A k \in DOMAIN matched :
       j < k =>
         /\ matched[j].index < matched[k].index
         /\ (j \in Corrected /\ k \in Corrected) =>
              matched[j].correction < matched[k].correction
  /\ \A i \in DOMAIN offsets : \A j \in DOMAIN offsets :
       i < j =>
         /\ offsets[i].line <= offsets[j].line
         /\ offsets[i].line = offsets[j].line =>
              offsets[i].column <= offsets[j].column

\* Two corrections on one line after the first, with a placeholder whose
\* replacement has the length of its token among the matches.
C21_Witness ==
  /\ Done
  /\ Len(offsets) = 2
  /\ offsets[1].line = offsets[2].line
  /\ offsets[1].column < offsets[2].column
  /\ \E k \in DOMAIN matched : matched[k].correction = 0

\* The text input.replace has produced when it has scanned up to lastIndex:
\* the characters of the input from index i on, with the replacement in the
\* place of every match from the k-th on.
RECURSIVE Rewritten(_, _)
Rewritten(i, k) ==
  IF i >= lastIndex THEN <<>>
  ELSE IF k <= Len(matched) /\ matched[k].index = i
  THEN MapGet(replacementMap, matched[k].match)
         \o Rewritten(i + Len(matched[k].match), k + 1)
  ELSE <<input[i + 1]>> \o Rewritten(i + 1, k)

\* C22: the substitution is one pass over the original text.  Every match
\* is a token that stands in the input, behind the match before it; the
\* result is the input with the replacements in the place of the matches,
\* character for character, whatever the replacements contain; and the
\* line counter counts the newlines of the input only.
C22_SinglePass ==
  /\ \A k \in DOMAIN matched :
       /\ MatchesAt(matched[k].match, matched[k].index)
       /\ matched[k].index + Len(matched[k].match) <= lastIndex
       /\ k > 1 => matched[k - 1].index + Len(matched[k - 1].match)
                     <= matched[k].index
  /\ result = Rewritten(0, 1)
  /\ line = 1 + NewlinesBefore(lastIndex)

\* A replacement that holds a newline and a token of the map has been
\* emitted: the result has a newline the line counter has not counted and
\* ends with the token.
C22_Witness ==
  /\ Done
  /\ Len(matched) = 1
  /\ MapGet(replacementMap, matched[1].match) = <<NL, "a">>
  /\ MapHas(replacementMap, <<"a">>)
  /\ line = 1
  /\ result = <<NL, "a">>

\* The sum of the deltas of the first n corrections.
RECURSIVE SumOfDeltas(_)
SumOfDeltas(n) == IF n = 0 THEN 0 ELSE SumOfDeltas(n - 1) + offsets[n].offset

\* The number of newlines of a text.
Newlines(text) == Cardinality({j \in DOMAIN text : text[j] = NL})

\* No replacement of the map holds a newline (no token of the maps does).
NoNewlineInMap ==
  \A k \in DOMAIN replacementMap :
    /\ \A j \in DOMAIN replacementMap[k].to : replacementMap[k].to[j] # NL
    /\ \A j \in DOMAIN replacementMap[k].from : replacementMap[k].from[j] # NL

\* By how much the matches before the index i of the input have moved it.
ShiftBefore(i) ==
  SumOfDeltas(Cardinality({k \in Corrected : matched[k].index < i}))

\* C27: when no token and no replacement of the map holds a newline, the
\* result is as long as the input plus the sum of the deltas of the
\* corrections, it has as many newlines as the input, and every newline of
\* the input is in the result, moved by the deltas before it.
C27_LengthAccounting ==
  (Done /\ NoNewlineInMap) =>
    /\ Len(result) = Len(input) + SumOfDeltas(Len(offsets))
    /\ Newlines(result) = Newlines(input)
    /\ \A i \in DOMAIN input :
         input[i] = NL => result[i + ShiftBefore(i - 1)] = NL

\* A text with a newline between two placeholders, one replaced by a longer
\* text and one by nothing.
C27_Witness ==
  /\ Done
  /\ NoNewlineInMap
  /\ Newlines(input) = 1
  /\ Len(offsets) = 2
  /\ offsets[1].line = 1
  /\ offsets[2].line = 2
  /\ offsets[1].offset > 0
  /\ offsets[2].offset < 0

----------------------------------------------------------------------------
(* Further claims about the passes over the bundle references *)

\* A pass has just returned.
PassReturned == last.op \in {"url", "inline"} /\ last.res.kind = "value"

\* C23: when a pass returns and a source map was given, the calls made on
\* the map since the pass was called are offsetColumns(line, column, delta)
\* for the corrections of regexReplaceWithLocations, each once and in the
\* order emitted, none before the text is rewritten, and the map returned is
\* the one given; when no map was given no call is ever made and no map is
\* returned.  The contents returned are the layout with the registered
\* replacements, with or without a map.
C23_MapCorrectedOnce ==
  /\ sourceMap.attached =>
       /\ pass.name # "none" =>
            Len(sourceMap.offsetColumns) = sourceMap.before
       /\ PassReturned =>
            /\ SubSeq(sourceMap.offsetColumns, sourceMap.before + 1,
                      Len(sourceMap.offsetColumns)) = offsets
            /\ last.map
  /\ ~sourceMap.attached =>
       /\ sourceMap.offsetColumns = <<>>
       /\ PassReturned => ~last.map
  /\ (PassReturned /\ finished = {last.op}) =>
       bundleContents =
         Render(layout, [d \in DependencyNames |->
                           Shown(replacements[last.op], d)])

\* The second pass has returned with a map that already had the
\* corrections of the first, and has added two of its own.
C23_Witness ==
  /\ PassReturned
  /\ sourceMap.attached
  /\ sourceMap.before > 0
  /\ Len(offsets) = 2
  /\ offsets[1] # offsets[2]
  /\ Len(sourceMap.offsetColumns) = sourceMap.before + 2

\* The dependencies among the first n of the traversal that reference an
\* inline bundle, in traversal order.
InlineAmong(n) ==
  SelectSeq(SubSeq(Dependencies, 1, n),
            LAMBDA d : graph[d].bundle # "none"
                         /\ Bundle(graph[d].bundle).isInline)

\* While replaceInlineReferences runs: at most one getInlineBundleContents
\* call is awaited, the calls made so far are those for the inline
\* dependencies visited, in traversal order, whatever their inline type, and
\* performReplacement starts when all of them have completed.
InlineOneAtATime ==
  /\ Cardinality(pass.inFlight) <= 1
  /\ pass.name = "inline" =>
       /\ pass.next \in DOMAIN Dependencies =>
            pass.calls = InlineAmong(pass.next - 1)
                           \o (IF pass.inFlight = {} THEN <<>>
                               ELSE <<Dependencies[pass.next]>>)
       /\ pass.next \notin DOMAIN Dependencies =>
            /\ pass.inFlight = {}
            /\ pass.calls = InlineAmong(Len(Dependencies))
  /\ "inline failed" \in finished => "inline" \notin finished

\* C28: replaceInlineReferences packages the inline bundles one at a time
\* in traversal order, also those whose inline type excludes the
\* substitution; nothing is rewritten and no call is made on the source map
\* while the loop runs; and when a packaging fails the call fails with the
\* contents not rewritten and the source map not touched.
C28_SequentialPackaging ==
  /\ []InlineOneAtATime
  /\ [][/\ (pass.name = "inline" /\ pass.next # 0 /\ pass'.next # 0) =>
            /\ bundleContents' = bundleContents
            /\ sourceMap' = sourceMap
            /\ result' = result
            /\ lastIndex' = lastIndex
        /\ (pass.name = "inline" /\ last'.op = "inline"
              /\ last'.res.kind = "error") =>
            /\ bundleContents' = bundleContents
            /\ sourceMap' = sourceMap
            /\ "inline" \notin finished']_vars

\* Both dependencies reference an inline bundle, the first one of a type
\* that is not substituted: both were packaged, in order, before
\* performReplacement, and only the second has a replacement.
C28_Witness ==
  /\ pass.name = "inline"
  /\ pass.next = 0
  /\ pass.calls = <<"d1", "d2">>
  /\ graph["d1"].bundle = "inO"
  /\ Registered(replacements.inline) = {"d2"}

----------------------------------------------------------------------------
(* Further claims about the large blobs *)

\* The first chunk index of the key that has no file.
FirstMissing(key) ==
  CHOOSE n \in 0 .. (MaxLen + 1) :
    /\ ~exists(getFilePath(key, n))
    /\ \A i \in 0 .. (n - 1) : exists(getFilePath(key, i))

\* C24: getLargeBlob returns, without error, the chunks of the key from
\* index 0 up to the first missing index, concatenated in index order: a
\* chunk after the first missing index is not part of it, and a key
\* without chunk 0 gives the empty payload.
C24_ChunksUpToFirstMissing ==
  last.op = "getLargeBlob" =>
    /\ last.res.kind = "value"
    /\ last.res.val =
         Concat([j \in 1 .. FirstMissing(last.key) |->
                  fs[getFilePath(last.key, j - 1)]])
    /\ ~exists(getFilePath(last.key, 0)) => last.res.val = <<>>

\* A blob read on a key that has chunk 0 and chunk 2 but not chunk 1: the
\* result is chunk 0.
C24_Witness ==
  /\ last.op = "getLargeBlob"
  /\ exists(getFilePath(last.key, 0))
  /\ ~exists(getFilePath(last.key, 1))
  /\ exists(getFilePath(last.key, 2))
  /\ last.res.val = fs[getFilePath(last.key, 0)]
  /\ fs[getFilePath(last.key, 2)] # <<>>

\* The most recent setLargeBlob call had empty contents.
EmptyCall == call.key # "" /\ call.contents = <<>>

\* C26: setLargeBlob with empty contents resolves without issuing a chunk
\* write, and no chunk file is written or removed for it: on a key that
\* held no chunk, hasLargeBlob then answers false and getLargeBlob returns
\* the empty payload.
C26_EmptyContentsWriteNothing ==
  /\ [](EmptyCall =>
          /\ call.status = "resolved"
          /\ call.pending = {} /\ call.written = {} /\ call.failed = {}
          /\ (call.fresh /\ last.key = call.key) =>
               /\ last.op = "hasLargeBlob" => last.res.val = FALSE
               /\ last.op = "getLargeBlob" => last.res.val = <<>>)
  /\ [][EmptyCall' => fs' = fs]_vars

\* hasLargeBlob answered false after a setLargeBlob with empty contents
\* had resolved on a key without chunks.
C26_Witness ==
  /\ EmptyCall
  /\ call.fresh
  /\ call.status = "resolved"
  /\ last = Returned("hasLargeBlob", call.key, "value", FALSE)

----------------------------------------------------------------------------
(* Further claims about the asset wrappers *)

\* The step assigns type through a MutableAsset.
TypeAssigned == last'.op = "write" /\ last'.prop = "type"

\* The asset value the step assigns to.
Assigned == ValueOf(wrappers[last'.key].asset)

\* C25: assigning type through a MutableAsset gives the asset value a new
\* id exactly when the type assigned differs from the one it has; assigning
\* the type it has changes nothing; neither touches the wrappers, and a
\* constructor called for an asset value that has a wrapper of the class
\* returns that wrapper, whatever the id has become.
C25_TypeRegeneratesId ==
  [][/\ TypeAssigned =>
          /\ assetValues'[Assigned].id # assetValues[Assigned].id
               <=> lastWrite'.val # assetValues[Assigned].type
          /\ lastWrite'.val = assetValues[Assigned].type =>
               assetValues' = assetValues
          /\ assetValues'[Assigned].type = lastWrite'.val
          /\ UNCHANGED <<wrappers, uncommittedAssetValueToAsset,
                         assetValueToMutableAsset>>
     /\ (last'.op = "new Asset"
           /\ ValueOf(last'.key) \in DOMAIN uncommittedAssetValueToAsset) =>
          /\ last'.res.val = uncommittedAssetValueToAsset[ValueOf(last'.key)]
          /\ wrappers' = wrappers
     /\ (last'.op = "new MutableAsset"
           /\ ValueOf(last'.key) \in DOMAIN assetValueToMutableAsset) =>
          /\ last'.res.val = assetValueToMutableAsset[ValueOf(last'.key)]
          /\ wrappers' = wrappers]_vars

\* new Asset returned, after the id of the asset value had changed, the
\* Asset made before the MutableAsset through which the type was assigned.
C25_Witness ==
  /\ last.op = "new Asset"
  /\ assetValues[ValueOf(last.key)].id # NewAssetValue.id
  /\ ValueOf(last.key) \in DOMAIN assetValueToMutableAsset
  /\ last.res.val < assetValueToMutableAsset[ValueOf(last.key)]

====
